---- MODULE Spec2Model ----
(***************************************************************************)
(* Tenant Provisioning Orchestrator (provisioner/): the ledger row          *)
(* (ProvisionRequest), the step functions of tasks.py, the orchestrator     *)
(* provision_tenant_task, the scheduler adapter and the health-check loop   *)
(* of scheduler.py, for ONE tenant (one ledger row, created by the view).   *)
(*                                                                         *)
(* Remote calls are modelled at the level of one Platform Client call       *)
(* (_post/_get with its retries inside): the call either raises            *)
(* DokployError ("err") or returns a response.  Platform ids are positive   *)
(* naturals handed out by the platform; 0 stands for None / empty string.   *)
(***************************************************************************)
EXTENDS Naturals, Sequences, FiniteSets, TLC

\* ---------------------------------------------------------------- bounds
\* number of calls of schedule_provision_job for the tenant
MaxScheduleCalls == 2
\* worker threads of the scheduler's executor that can run a job
MaxWorkers == 2
\* submissions to provision_request_view
MaxRequests == 2
\* largest max_retries a Platform Client call is made with
MaxRetries == 5
\* longest string response given to extract_id_from_resp
MaxStrLen == 3
\* most key/value pairs of a structured response
MaxPairs == 2
\* entries in a project's postgres list
MaxEntries == 2
\* tenants of one client whose projects are being named
MaxTenants == 3

\* ------------------------------------------------------ program constants
\* scheduler.py:51 max_instances=1 (also APScheduler's default)
MaxInstances == 1
\* scheduler.py:131 give up when backend_health_tries >= 10
MaxHealthTries == 10

None == 0

\* ---------------------------------------------------------------- strings
\* A character string is a sequence of characters.
Space == " "
Tab == "\t"
DQuote == "\""
SQuote == "'"
Whitespace == {Space, Tab}

\* str.strip(chars): drop the leading and trailing characters in cs
RECURSIVE LStrip(_, _)
LStrip(str, cs) ==
  IF str # <<>> /\ Head(str) \in cs THEN LStrip(Tail(str), cs) ELSE str

RECURSIVE RStrip(_, _)
RStrip(str, cs) ==
  IF str # <<>> /\ str[Len(str)] \in cs
    THEN RStrip(SubSeq(str, 1, Len(str) - 1), cs)
    ELSE str

strip(str, cs) == RStrip(LStrip(str, cs), cs)

\* ------------------------------------------------------------ the ledger
Flags ==
  {"project_created", "backend_created", "backend_git_attached",
   "backend_build_configured", "db_created", "backend_env_configured",
   "postgres_deploy_triggered", "backend_deploy_triggered",
   "frontend_created", "frontend_git_attached", "frontend_build_configured",
   "frontend_deploy_triggered", "domains_configured"}

\* models.py: the row as the view creates it (status "pending", every
\* BooleanField default False, every id null).  db_fields stands for
\* "db_app_name and db_name and db_user and db_password" (tasks.py:523);
\* frontend_domain / backend_domain are TRUE when the host is recorded
\* (the host is a function of the row's subdomain, so a recorded host is
\* always the expected one).  subdomain is the label the view stored
\* (views.py:43-44 rejects an empty one).  detail is the sequence of the
\* messages written to the detail text, each message named by its fixed
\* part (the text is the messages joined by " | ").  super_user_created,
\* backend_health_tries and backend_next_wait (seconds) are read and
\* written by tasks.py:193 and scheduler.py:88,130,148 but are not
\* declared in models.py: see health_fields.
ProvisionRequest ==
  [status |-> "pending", failed |-> FALSE, completed |-> FALSE,
   project_created |-> FALSE, backend_created |-> FALSE,
   backend_git_attached |-> FALSE, backend_build_configured |-> FALSE,
   db_created |-> FALSE, backend_env_configured |-> FALSE,
   postgres_deploy_triggered |-> FALSE, backend_deploy_triggered |-> FALSE,
   frontend_created |-> FALSE, frontend_git_attached |-> FALSE,
   frontend_build_configured |-> FALSE, frontend_deploy_triggered |-> FALSE,
   domains_configured |-> FALSE,
   project_id |-> None, backend_id |-> None, frontend_id |-> None,
   db_id |-> None, db_fields |-> FALSE,
   frontend_domain |-> FALSE, backend_domain |-> FALSE,
   super_user_created |-> FALSE, backend_health_tries |-> 0,
   backend_next_wait |-> 0, detail |-> <<>>, subdomain |-> <<"a">>]

\* the "pr.status = 'failed'; pr.failed = True; pr.save()" of every failure path
MarkFailed(p) == [p EXCEPT !.status = "failed", !.failed = TRUE]

\* pr.detail = (pr.detail or "") + " | msg"
Note(p, msg) == [p EXCEPT !.detail = Append(@, msg)]

\* pr.detail = "msg"
Overwrite(p, msg) == [p EXCEPT !.detail = <<msg>>]

\* ------------------------------------------------------------ responses
\* A response is None, a bare string, a dict (ordered key/value pairs, an
\* optional nested "data" dict) or another JSON value (true).  A value is
\* a platform id as a string (n > 0: non-blank, without whitespace), the id
\* as a JSON number (Number(n)) or 0 (blank).
Number(n) == 0 - n

\* isinstance(val, str) and val.strip()
IsStr(val) == val > 0

\* the resource a stored or passed id names: str(42) and "42" are the same
Named(id) == IF id < 0 THEN 0 - id ELSE id
RespNone == [t |-> "none"]
RespStr(v) == [t |-> "str", v |-> v]
RespDict(top, hasdata, data) ==
  [t |-> "dict", top |-> top, hasdata |-> hasdata, data |-> data]
RespOther == [t |-> "other"]

\* dict.get(key): the value of the pair with that key, None when absent
RECURSIVE DictGet(_, _)
DictGet(kv, key) ==
  IF kv = <<>> THEN None
  ELSE IF Head(kv)[1] = key THEN Head(kv)[2] ELSE DictGet(Tail(kv), key)

priority_keys ==
  <<"projectId", "applicationId", "appId", "id", "_id", "project_id",
    "application_id">>

\* first key of the priority list whose value is a non-blank string
RECURSIVE FirstPriority(_, _)
FirstPriority(kv, keys) ==
  IF keys = <<>> THEN None
  ELSE IF IsStr(DictGet(kv, Head(keys))) THEN DictGet(kv, Head(keys))
  ELSE FirstPriority(kv, Tail(keys))

\* last resort: the first value that looks like an id
RECURSIVE FirstIdLike(_)
FirstIdLike(kv) ==
  IF kv = <<>> THEN None
  ELSE IF IsStr(Head(kv)[2]) THEN Head(kv)[2] ELSE FirstIdLike(Tail(kv))

extract_id_from_resp(resp) ==
  IF resp.t = "none" THEN None
  ELSE IF resp.t = "str" THEN resp.v
  ELSE IF resp.t = "dict" THEN
    IF FirstPriority(resp.top, priority_keys) # None
      THEN FirstPriority(resp.top, priority_keys)
    ELSE IF resp.hasdata /\ FirstPriority(resp.data, priority_keys) # None
      THEN FirstPriority(resp.data, priority_keys)
    ELSE FirstIdLike(resp.top)
  ELSE None

\* What the platform may answer to a successful creation of resource n
\* (own key natkey, parent resource parent under parkey):
\*   keyed  {natkey: n, parkey: parent}     nested {data: {id: n}}
\*   bare   "n"                             empty  {}
\*   ack    true                            number {natkey: n as a number}
RespShapes == {"keyed", "nested", "bare", "empty", "ack", "number"}

MkResp(shape, natkey, n, parkey, parent) ==
  CASE shape = "keyed" ->
         RespDict(IF parent = None THEN <<<<natkey, n>>>>
                  ELSE <<<<parkey, parent>>, <<natkey, n>>>>, FALSE, <<>>)
    [] shape = "nested" -> RespDict(<<>>, TRUE, <<<<"id", n>>>>)
    [] shape = "bare" -> RespStr(n)
    [] shape = "empty" -> RespDict(<<>>, FALSE, <<>>)
    [] shape = "number" -> RespDict(<<<<natkey, Number(n)>>>>, FALSE, <<>>)
    [] OTHER -> RespOther

\* outcome of a creation call / of a plain call
CreateOutcomes == {"err"} \cup RespShapes
PlainOutcomes == {"err", "ok"}

\* ------------------------------------------------------------ the platform
\* What exists at the deployment platform for this tenant: the resources
\* created so far (ids), the project's postgres list in creation order
\* (entry = id, createdAt, the fields the entry carries) and the live domains
\* (id, role "frontend" or "backend").
PlatformInit ==
  [next_id |-> 1, projects |-> {}, backend_apps |-> {}, frontend_apps |-> {},
   dbs |-> <<>>, domains |-> {}]

\* the fields a postgres entry of project.all carries:
\*   full    postgresId, appName, databaseName, databaseUser, databasePassword
\*   nocred  postgresId but no databasePassword
\*   noid    the credentials but no postgresId / id / _id / postgres_id
DbShapes == {"full", "nocred", "noid"}

\* ------------------------------------------------- execution of one step
\* The context threaded through the sub-steps of a step function: the row
\* object pr (saved to the ledger at every pr.save()), the platform, the
\* remote calls issued so far (call, whether it returned, the id involved)
\* and the return value once the function has returned ("go" before that);
\* pg_resp / app_resp: the deploy step's responses are not None;
\* created_frontend_now, frontend_domain_id: locals of create_domains_task.
Ctx(p, plat) ==
  [pr |-> p, plat |-> plat, log |-> <<>>, ret |-> "go",
   pg_resp |-> FALSE, app_resp |-> FALSE,
   created_frontend_now |-> FALSE, frontend_domain_id |-> None]

Call(name, ok, id) == [call |-> name, ok |-> ok, id |-> id]

\* an "except DokployError" handler that marks failed but does not return
FailCallContinue(c, name) ==
  [c EXCEPT !.pr = Note(MarkFailed(@), name),
            !.log = Append(@, Call(name, FALSE, None))]

\* an "except DokployError" handler: mark failed, append "<call> error" to
\* the detail, save, return False
FailCall(c, name) ==
  [c EXCEPT !.pr = Note(MarkFailed(@), name),
            !.log = Append(@, Call(name, FALSE, None)),
            !.ret = "false"]

\* a precondition check that returns False without touching the row
FailPreSilent(c) == [c EXCEPT !.ret = "false"]

\* a structural precondition is missing: mark failed, save, return False
FailPre(c) ==
  [c EXCEPT !.pr = Note(MarkFailed(@), "missing"), !.ret = "false"]

\* Python's "a or b or c" over ids
PyOr(a, b) == IF a # None THEN a ELSE b

\* ------------------------------------------------ step 1: create project
create_project_task(p, plat, o) ==
  LET c0 == Ctx([p EXCEPT !.status = "provisioning"], plat)
  IN IF o = "err"
       THEN [c0 EXCEPT
               !.pr = Overwrite(MarkFailed(@), "Project creation failed"),
               !.log = Append(@, Call("project.create", FALSE, None)),
               !.ret = "false"]
     ELSE
       LET n == plat.next_id
           resp == MkResp(o, "projectId", n, "", None)
           project_id == extract_id_from_resp(resp)
           c1 == [c0 EXCEPT
                    !.plat = [@ EXCEPT !.next_id = n + 1,
                                       !.projects = @ \cup {n}],
                    !.log = Append(@, Call("project.create", TRUE, n))]
       IN IF project_id = None
            THEN [c1 EXCEPT
                    !.pr = Overwrite(MarkFailed(@),
                                     "project.create returned unexpected response"),
                    !.ret = "false"]
            ELSE [c1 EXCEPT
                    !.pr = [@ EXCEPT !.project_id = project_id,
                                     !.project_created = TRUE,
                                     !.status = "project_created",
                                     !.detail = <<"Project created">>],
                    !.ret = "true"]

\* ---------------------------------------- step 2: create backend service
\* Step A: create application (if not already created)
BackendCreate(c, o) ==
  IF c.ret # "go" \/ (c.pr.backend_created /\ c.pr.backend_id # None) THEN c
  ELSE IF o = "err" THEN FailCall(c, "application.create.backend")
  ELSE
    LET n == c.plat.next_id
        resp == MkResp(o, "applicationId", n, "projectId", c.pr.project_id)
        got == IF resp.t = "dict"
                 THEN PyOr(DictGet(resp.top, "applicationId"),
                           PyOr(DictGet(resp.top, "id"),
                                DictGet(resp.top, "_id")))
                 ELSE None
        app_id == PyOr(got, extract_id_from_resp(resp))
        c1 == [c EXCEPT
                 !.plat = [@ EXCEPT !.next_id = n + 1,
                                    !.backend_apps = @ \cup {n}],
                 !.log = Append(@, Call("application.create.backend", TRUE, n))]
    IN IF app_id = None
         THEN [c1 EXCEPT
                 !.pr = Note(MarkFailed(@), "application.create.backend"),
                 !.ret = "false"]
         ELSE [c1 EXCEPT !.pr = [@ EXCEPT !.backend_id = Named(app_id),
                                          !.backend_created = TRUE,
                                          !.status = "backend_created",
                                          !.detail = Append(@, "backend_created")]]

\* sanity check: backend_id present after the create step
BackendSanity(c) ==
  IF c.ret = "go" /\ c.pr.backend_id = None THEN FailPre(c) ELSE c

\* Step B: attach git provider (if not already attached)
BackendGit(c, o) ==
  IF c.ret # "go" \/ c.pr.backend_git_attached THEN c
  ELSE IF o = "err" THEN FailCall(c, "saveGitProvider.backend")
  ELSE [c EXCEPT
          !.pr = [@ EXCEPT !.backend_git_attached = TRUE,
                           !.status = "backend_git_attached",
                           !.detail = Append(@, "backend_git_attached")],
          !.log = Append(@, Call("saveGitProvider.backend", TRUE, None))]

\* Step C: set build type (if not already configured)
BackendBuild(c, o) ==
  IF c.ret # "go" \/ c.pr.backend_build_configured THEN c
  ELSE IF o = "err" THEN FailCall(c, "saveBuildType.backend")
  ELSE [c EXCEPT
          !.pr = [@ EXCEPT !.backend_build_configured = TRUE,
                           !.status = "backend_ready",
                           !.detail = Append(@, "backend_build_configured")],
          !.log = Append(@, Call("saveBuildType.backend", TRUE, None))]

\* return True at the end of a step function
ReturnTrue(c) == IF c.ret = "go" THEN [c EXCEPT !.ret = "true"] ELSE c

create_backend_service_task(p, plat, o) ==
  IF p.project_id = None THEN FailPre(Ctx(p, plat))
  ELSE ReturnTrue(
         BackendBuild(
           BackendGit(
             BackendSanity(BackendCreate(Ctx(p, plat), o.app)), o.git),
           o.build))

BackendOutcomes == [app : CreateOutcomes, git : PlainOutcomes, build : PlainOutcomes]

\* ------------------------------- step 3: create postgres, set backend env
\* choose_postgres_entry: latest createdAt first (sorted() is stable, so
\* the first of the entries with the greatest createdAt); None when empty
RECURSIVE BestEntry(_, _)
BestEntry(list, best) ==
  IF list = <<>> THEN best
  ELSE BestEntry(Tail(list),
                 IF Head(list).createdAt > best.createdAt THEN Head(list)
                 ELSE best)

NoEntry == [id |-> None, createdAt |-> 0, shape |-> "none", project |-> None]

\* an entry choice that takes the first entry of the list
choose_first_entry(postgres_list) ==
  IF postgres_list = <<>> THEN NoEntry ELSE Head(postgres_list)

choose_postgres_entry(postgres_list) ==
  IF postgres_list = <<>> THEN NoEntry
  ELSE BestEntry(Tail(postgres_list), Head(postgres_list))

\* the ids of a set in increasing order
RECURSIVE Ascending(_)
Ascending(S) ==
  IF S = {} THEN <<>>
  ELSE LET m == CHOOSE x \in S : \A y \in S : x <= y
       IN <<m>> \o Ascending(S \ {m})

\* GET /project.all: the projects, each with the postgres entries created
\* under it; answer "absent": the project is not listed, "nodb": its
\* postgres list is (still) empty
get_all_projects(plat, o) ==
  IF o = "absent" THEN <<>>
  ELSE LET ids == Ascending(plat.projects)
       IN [i \in 1..Len(ids) |->
             [projectId |-> ids[i],
              postgres |-> IF o = "nodb" THEN <<>>
                           ELSE SelectSeq(plat.dbs,
                                          LAMBDA e : e.project = ids[i])]]

NoProject == [projectId |-> None, postgres |-> <<>>]

\* the first project of the list whose projectId is project_id
RECURSIVE find_project_in_all(_, _)
find_project_in_all(projects_list, project_id) ==
  IF projects_list = <<>> THEN NoProject
  ELSE IF Head(projects_list).projectId = project_id THEN Head(projects_list)
  ELSE find_project_in_all(Tail(projects_list), project_id)

_fetch_postgres_entry_for_project(projects_list, project_id) ==
  LET project == find_project_in_all(projects_list, project_id)
  IN IF project = NoProject THEN NoEntry
     ELSE choose_postgres_entry(project.postgres)

_populate_db_fields_from_postgres_entry(p, postgres_entry) ==
  [p EXCEPT
     !.db_id = IF postgres_entry.shape = "noid" THEN None ELSE postgres_entry.id,
     !.db_fields = (postgres_entry.shape # "nocred"),
     !.db_created = TRUE,
     !.detail = Append(@, "postgres_populated")]

\* lines 522-579: skip when the db is created and its fields are present,
\* else postgres.create, then project.all and populate.  project.all may
\* answer something that is not a list of project dicts ("malformed": a
\* dict, a list of strings, null): find_project_in_all then raises
\* AttributeError / TypeError, which "except DokployError" does not catch
DbCreateAndDiscover(c, oc, oa) ==
  IF c.ret # "go" \/ (c.pr.db_created /\ c.pr.db_id # None /\ c.pr.db_fields)
    THEN c
  ELSE IF oc = "err" THEN FailCall(c, "postgres.create")
  ELSE
    LET n == c.plat.next_id
        plat1 == [c.plat EXCEPT
                    !.next_id = n + 1,
                    !.dbs = Append(@, [id |-> n, createdAt |-> Len(@) + 1,
                                       shape |-> oc,
                                       project |-> c.pr.project_id])]
        c1 == [c EXCEPT !.plat = plat1,
                        !.pr = Note(@, "postgres.create_resp"),
                        !.log = Append(@, Call("postgres.create", TRUE, n))]
    IN IF oa = "err" THEN FailCall(c1, "project.all")
       ELSE IF oa = "malformed"
         THEN [c1 EXCEPT !.log = Append(@, Call("project.all", TRUE, None)),
                         !.ret = "raise"]
       ELSE
         LET all_projects == get_all_projects(plat1, oa)
             postgres_entry ==
               _fetch_postgres_entry_for_project(all_projects,
                                                 c.pr.project_id)
             c2 == [c1 EXCEPT
                      !.log = Append(@, Call("project.all", TRUE, None))]
         IN IF postgres_entry = NoEntry
              THEN [c2 EXCEPT
                      !.pr = Note(MarkFailed(@),
                                  "project.all did not show postgres entry"),
                      !.ret = "false"]
              ELSE [c2 EXCEPT
                      !.pr = _populate_db_fields_from_postgres_entry(
                               @, postgres_entry)]

\* lines 581-615: set the backend environment (resume-aware)
BackendEnv(c, o) ==
  IF c.ret # "go" THEN c
  ELSE IF c.pr.backend_env_configured THEN [c EXCEPT !.ret = "true"]
  ELSE IF o = "err" THEN FailCall(c, "saveEnvironment")
  ELSE [c EXCEPT
          !.pr = [@ EXCEPT !.backend_env_configured = TRUE,
                           !.status = "backend_env_configured",
                           !.detail = Append(@, "backend_env_set")],
          !.log = Append(@, Call("saveEnvironment", TRUE, None)),
          !.ret = "true"]

create_postgres_task(p, plat, o) ==
  IF p.project_id = None \/ p.backend_id = None THEN FailPre(Ctx(p, plat))
  ELSE BackendEnv(DbCreateAndDiscover(Ctx(p, plat), o.create, o.all), o.env)

PostgresOutcomes ==
  [create : {"err"} \cup DbShapes,
   all : {"err", "absent", "nodb", "list", "malformed"},
   env : PlainOutcomes]

\* --------------------------------------- step 4: deploy db, then backend
\* 1) trigger DB deploy (if not already triggered); on error (None, None)
DeployPostgres(c, o) ==
  IF c.ret # "go" \/ c.pr.postgres_deploy_triggered THEN c
  ELSE IF o = "err" THEN FailCall(c, "postgres.deploy")
  ELSE [c EXCEPT
          !.pr = [@ EXCEPT !.postgres_deploy_triggered = TRUE,
                           !.status = "postgres_deploy_triggered",
                           !.detail = Append(@, "postgres_deploy_resp")],
          !.log = Append(@, Call("postgres.deploy", TRUE, None)),
          !.pg_resp = TRUE]

\* DeployBackend with the flag set before the response is known
DeployBackendOptimistic(c, o) ==
  IF c.ret # "go" \/ c.pr.backend_deploy_triggered THEN c
  ELSE IF o = "err"
    THEN FailCall([c EXCEPT !.pr = [@ EXCEPT !.backend_deploy_triggered = TRUE]],
                  "application.deploy.backend")
  ELSE [c EXCEPT
          !.pr = [@ EXCEPT !.backend_deploy_triggered = TRUE,
                           !.status = "deploys_triggered",
                           !.detail = Append(@, "application_deploy_resp")],
          !.log = Append(@, Call("application.deploy.backend", TRUE, None)),
          !.app_resp = TRUE]

\* 2) trigger application deploy (if not already); on error (pg_resp, None)
DeployBackend(c, o) ==
  IF c.ret # "go" \/ c.pr.backend_deploy_triggered THEN c
  ELSE IF o = "err" THEN FailCall(c, "application.deploy.backend")
  ELSE [c EXCEPT
          !.pr = [@ EXCEPT !.backend_deploy_triggered = TRUE,
                           !.status = "deploys_triggered",
                           !.detail = Append(@, "application_deploy_resp")],
          !.log = Append(@, Call("application.deploy.backend", TRUE, None)),
          !.app_resp = TRUE]

\* returns (pg_resp, app_resp); ret records whether the function took a
\* failure path ("false") or reached its final return ("true")
deploy_db_then_app_quick(p, plat, o) ==
  IF p.db_id = None \/ p.backend_id = None THEN FailPre(Ctx(p, plat))
  ELSE ReturnTrue(DeployBackend(DeployPostgres(Ctx(p, plat), o.pg), o.app))

DeployOutcomes == [pg : PlainOutcomes, app : PlainOutcomes]

\* --------------------------------------- step 5: create frontend service
\* Step A: create application (if not already created)
FrontendCreate(c, o) ==
  IF c.ret # "go" \/ (c.pr.frontend_created /\ c.pr.frontend_id # None) THEN c
  ELSE IF o = "err" THEN FailCall(c, "application.create.frontend")
  ELSE
    LET n == c.plat.next_id
        resp == MkResp(o, "applicationId", n, "projectId", c.pr.project_id)
        got == IF resp.t = "dict"
                 THEN PyOr(DictGet(resp.top, "applicationId"),
                           PyOr(DictGet(resp.top, "id"),
                                DictGet(resp.top, "_id")))
                 ELSE None
        app_id == PyOr(got, extract_id_from_resp(resp))
        c1 == [c EXCEPT
                 !.plat = [@ EXCEPT !.next_id = n + 1,
                                    !.frontend_apps = @ \cup {n}],
                 !.log = Append(@, Call("application.create.frontend", TRUE, n))]
    IN IF app_id = None
         THEN [c1 EXCEPT
                 !.pr = Note(MarkFailed(@), "application.create.frontend"),
                 !.ret = "false"]
         ELSE [c1 EXCEPT !.pr = [@ EXCEPT !.frontend_id = Named(app_id),
                                          !.frontend_created = TRUE,
                                          !.status = "frontend_created",
                                          !.detail = Append(@, "frontend_created")]]

\* sanity check: frontend_id present after the create step
FrontendSanity(c) ==
  IF c.ret = "go" /\ c.pr.frontend_id = None THEN FailPre(c) ELSE c

\* Step B: attach git provider (if not already attached)
FrontendGit(c, o) ==
  IF c.ret # "go" \/ c.pr.frontend_git_attached THEN c
  ELSE IF o = "err" THEN FailCall(c, "saveGitProvider.frontend")
  ELSE [c EXCEPT
          !.pr = [@ EXCEPT !.frontend_git_attached = TRUE,
                           !.status = "frontend_git_attached",
                           !.detail = Append(@, "frontend_git_attached")],
          !.log = Append(@, Call("saveGitProvider.frontend", TRUE, None))]

\* Step C: set build type (if not already configured)
FrontendBuild(c, o) ==
  IF c.ret # "go" \/ c.pr.frontend_build_configured THEN c
  ELSE IF o = "err" THEN FailCall(c, "saveBuildType.frontend")
  ELSE [c EXCEPT
          !.pr = [@ EXCEPT !.frontend_build_configured = TRUE,
                           !.status = "frontend_build_configured",
                           !.detail = Append(@, "frontend_build_configured")],
          !.log = Append(@, Call("saveBuildType.frontend", TRUE, None))]

\* Step D: trigger deploy (if not already triggered)
FrontendDeploy(c, o) ==
  IF c.ret # "go" \/ c.pr.frontend_deploy_triggered THEN c
  ELSE IF o = "err" THEN FailCall(c, "application.deploy.frontend")
  ELSE [c EXCEPT
          !.pr = [@ EXCEPT !.frontend_deploy_triggered = TRUE,
                           !.status = "frontend_deploy_triggered",
                           !.detail = Append(@, "frontend_deploy_resp")],
          !.log = Append(@, Call("application.deploy.frontend", TRUE, None))]

\* Success - mark ready
FrontendReady(c) ==
  IF c.ret # "go" THEN c
  ELSE [c EXCEPT
          !.pr = Note([@ EXCEPT !.status = "frontend_ready"],
                      "frontend_created_and_deployed"),
          !.ret = "true"]

create_frontend_service_task(p, plat, o) ==
  IF p.project_id = None THEN FailPre(Ctx(p, plat))
  ELSE FrontendReady(
         FrontendDeploy(
           FrontendBuild(
             FrontendGit(
               FrontendSanity(FrontendCreate(Ctx(p, plat), o.app)), o.git),
             o.build),
           o.deploy))

FrontendOutcomes ==
  [app : CreateOutcomes, git : PlainOutcomes, build : PlainOutcomes,
   deploy : PlainOutcomes]

\* ------------------------------------------------ step 6: create domains
\* the domain id read from a domain.create response (lines 998-1001)
DomainIdOf(resp) ==
  IF resp.t = "dict"
    THEN PyOr(DictGet(resp.top, "domainId"), extract_id_from_resp(resp))
    ELSE extract_id_from_resp(resp)

\* DomainFrontend that does not look at the domain on record
DomainFrontendAlways(c, o) ==
  IF c.ret # "go" THEN c
  ELSE IF o = "err" THEN FailCall(c, "domain.create.frontend")
  ELSE
    LET n == c.plat.next_id
        resp == MkResp(o, "domainId", n, "applicationId", c.pr.frontend_id)
    IN [c EXCEPT
          !.plat = [@ EXCEPT !.next_id = n + 1,
                             !.domains = @ \cup {[id |-> n, role |-> "frontend"]}],
          !.log = Append(@, Call("domain.create.frontend", TRUE, n)),
          !.created_frontend_now = TRUE,
          !.frontend_domain_id = DomainIdOf(resp),
          !.pr = Note(Note([@ EXCEPT !.frontend_domain = TRUE],
                           "frontend_domain_id"),
                      "frontend_domain_created")]

\* lines 983-1020: frontend domain, if not already on record
DomainFrontend(c, o) ==
  IF c.ret # "go" \/ c.pr.frontend_domain THEN c
  ELSE IF o = "err" THEN FailCall(c, "domain.create.frontend")
  ELSE
    LET n == c.plat.next_id
        resp == MkResp(o, "domainId", n, "applicationId", c.pr.frontend_id)
    IN [c EXCEPT
          !.plat = [@ EXCEPT !.next_id = n + 1,
                             !.domains = @ \cup {[id |-> n, role |-> "frontend"]}],
          !.log = Append(@, Call("domain.create.frontend", TRUE, n)),
          !.created_frontend_now = TRUE,
          !.frontend_domain_id = DomainIdOf(resp),
          !.pr = Note(Note([@ EXCEPT !.frontend_domain = TRUE],
                           "frontend_domain_id"),
                      "frontend_domain_created")]

\* a rollback that deletes the domain and keeps it on record
DomainRollbackKeepsRecord(c, o) ==
  IF ~(c.created_frontend_now /\ c.frontend_domain_id # None) THEN c
  ELSE IF o = "err"
    THEN [c EXCEPT
            !.pr = Note(@, "frontend_domain_rollback_failed"),
            !.log = Append(@, Call("domain.delete", FALSE,
                                   Named(c.frontend_domain_id)))]
  ELSE [c EXCEPT
          !.plat = [@ EXCEPT
                      !.domains = {d \in @ :
                                     d.id # Named(c.frontend_domain_id)}],
          !.log = Append(@, Call("domain.delete", TRUE,
                                 Named(c.frontend_domain_id))),
          !.pr = Note(@, "frontend_domain_rollback")]

\* lines 1061-1078: best-effort delete of the frontend domain created now
DomainRollback(c, o) ==
  IF ~(c.created_frontend_now /\ c.frontend_domain_id # None) THEN c
  ELSE IF o = "err"
    THEN [c EXCEPT
            !.pr = Note(@, "frontend_domain_rollback_failed"),
            !.log = Append(@, Call("domain.delete", FALSE,
                                   Named(c.frontend_domain_id)))]
  ELSE [c EXCEPT
          !.plat = [@ EXCEPT
                      !.domains = {d \in @ :
                                     d.id # Named(c.frontend_domain_id)}],
          !.log = Append(@, Call("domain.delete", TRUE,
                                 Named(c.frontend_domain_id))),
          !.pr = Note([@ EXCEPT !.frontend_domain = FALSE],
                      "frontend_domain_rollback")]

\* DomainBackend that goes on after a failed backend domain creation
DomainBackendLenient(c, o, odel) ==
  IF c.ret # "go" \/ c.pr.backend_domain THEN c
  ELSE IF o = "err"
    THEN [c EXCEPT !.pr = Note(@, "domain.create.backend"),
                   !.log = Append(@, Call("domain.create.backend", FALSE, None))]
  ELSE
    LET n == c.plat.next_id
    IN [c EXCEPT
          !.plat = [@ EXCEPT !.next_id = n + 1,
                             !.domains = @ \cup {[id |-> n, role |-> "backend"]}],
          !.log = Append(@, Call("domain.create.backend", TRUE, n)),
          !.pr = Note(Note([@ EXCEPT !.backend_domain = TRUE],
                           "backend_domain_id"),
                      "backend_domain_created")]

\* lines 1025-1080: backend domain, if not already on record; on failure
\* mark failed, roll the frontend domain back and return False
DomainBackend(c, o, odel) ==
  IF c.ret # "go" \/ c.pr.backend_domain THEN c
  ELSE IF o = "err"
    THEN DomainRollback(FailCall(c, "domain.create.backend"), odel)
  ELSE
    LET n == c.plat.next_id
    IN [c EXCEPT
          !.plat = [@ EXCEPT !.next_id = n + 1,
                             !.domains = @ \cup {[id |-> n, role |-> "backend"]}],
          !.log = Append(@, Call("domain.create.backend", TRUE, n)),
          !.pr = Note(Note([@ EXCEPT !.backend_domain = TRUE],
                           "backend_domain_id"),
                      "backend_domain_created")]

\* DomainsDone that also resets the failure flag
DomainsDoneClearsFailed(c) ==
  IF c.ret # "go" THEN c
  ELSE [c EXCEPT !.pr = [@ EXCEPT !.domains_configured = TRUE,
                                  !.status = "domains_configured",
                                  !.failed = FALSE,
                                  !.detail = Append(@, "domains_configured")],
                 !.ret = "true"]

\* lines 1082-1089: both present -> mark the task complete
DomainsDone(c) ==
  IF c.ret # "go" THEN c
  ELSE [c EXCEPT !.pr = [@ EXCEPT !.domains_configured = TRUE,
                                  !.status = "domains_configured",
                                  !.detail = Append(@, "domains_configured")],
                 !.ret = "true"]

\* _sanitize_subdomain (lines 880-894): lowercase, every character that is
\* not a letter, a digit or a hyphen becomes a hyphen, runs of hyphens
\* collapse, hyphens are trimmed at both ends, at most 63 characters
Hyphen == "-"

Digits == <<"0", "1", "2", "3", "4", "5", "6", "7", "8", "9">>
DigitChars == {Digits[i] : i \in 1..10}
DigitOf(c) == (CHOOSE i \in 1..10 : Digits[i] = c) - 1

\* the lower-case letters in use
Letters == {"a", "b", "c", "d", "e", "k", "n"}

Lower(ch) == IF ch = "A" THEN "a" ELSE ch

RECURSIVE Hyphenate(_)
Hyphenate(str) ==
  IF str = <<>> THEN <<>>
  ELSE <<IF Lower(Head(str)) \in Letters \cup DigitChars \cup {Hyphen}
           THEN Lower(Head(str))
           ELSE Hyphen>> \o Hyphenate(Tail(str))

RECURSIVE Collapse(_)
Collapse(str) ==
  IF Len(str) < 2 THEN str
  ELSE IF str[1] = Hyphen /\ str[2] = Hyphen THEN Collapse(Tail(str))
  ELSE <<Head(str)>> \o Collapse(Tail(str))

_sanitize_subdomain(sub) ==
  IF sub = <<>> THEN <<>>
  ELSE LET s == strip(Collapse(Hyphenate(strip(sub, Whitespace))), {Hyphen})
       IN SubSeq(s, 1, IF Len(s) < 63 THEN Len(s) ELSE 63)

\* settings.BASE_DOMAIN, as configured
base_domain == <<"e", ".", "d">>

\* lines 961-962
frontend_host(sub) == sub \o <<".">> \o base_domain
backend_host(sub) ==
  sub \o <<Hyphen, "b", "a", "c", "k", "e", "n", "d", ".">> \o base_domain

\* lines 916-962: the hosts create_domains_task requests for a row with the
\* stored subdomain (none when the subdomain is blank or sanitizes to "")
RequestedHosts(subdomain) ==
  LET sub_raw == strip(subdomain, Whitespace)
      sub == _sanitize_subdomain(sub_raw)
  IN IF sub_raw = <<>> \/ sub = <<>> THEN {}
     ELSE {frontend_host(sub), backend_host(sub)}

\* lines 911-959: the short-circuit, then the structural preconditions
\* (subdomain present and not empty once sanitized, both application ids;
\* settings.BASE_DOMAIN is taken as configured)
create_domains_task(p, plat, o) ==
  IF p.domains_configured /\ p.frontend_domain /\ p.backend_domain
    THEN ReturnTrue(Ctx(p, plat))
  ELSE IF strip(p.subdomain, Whitespace) = <<>> THEN FailPre(Ctx(p, plat))
  ELSE IF _sanitize_subdomain(strip(p.subdomain, Whitespace)) = <<>>
    THEN FailPre(Ctx(p, plat))
  ELSE IF p.frontend_id = None \/ p.backend_id = None THEN FailPre(Ctx(p, plat))
  ELSE DomainsDone(DomainBackend(DomainFrontend(Ctx(p, plat), o.fe), o.be, o.del))

DomainOutcomes ==
  [fe : CreateOutcomes, be : PlainOutcomes, del : PlainOutcomes]

\* =================================================================== state
\* ------------------------------------------------------------ utils.py
\* generate_project_name (utils.py:5-22) on character strings.
Upper(c) == IF c = "a" THEN "A" ELSE c

\* str.capitalize(): first character upper case, the rest lower case
capitalize(word) ==
  [i \in 1..Len(word) |-> IF i = 1 THEN Upper(word[i]) ELSE Lower(word[i])]

\* length of the leading run of non-whitespace characters
WordLen(str) ==
  IF \E i \in 1..Len(str) : str[i] \in Whitespace
    THEN (CHOOSE i \in 1..Len(str) :
            /\ str[i] \in Whitespace
            /\ \A j \in 1..(i - 1) : str[j] \notin Whitespace) - 1
    ELSE Len(str)

\* str.split(): the words between runs of whitespace
RECURSIVE split(_)
split(str) ==
  IF str = <<>> THEN <<>>
  ELSE IF Head(str) \in Whitespace THEN split(Tail(str))
  ELSE <<SubSeq(str, 1, WordLen(str))>>
         \o split(SubSeq(str, WordLen(str) + 1, Len(str)))

\* sep.join(words)
RECURSIVE join(_, _)
join(sep, words) ==
  IF words = <<>> THEN <<>>
  ELSE IF Len(words) = 1 THEN words[1]
  ELSE words[1] \o sep \o join(sep, Tail(words))

\* lines 7-9: collapse the whitespace, capitalize each word, join with "-"
base_name(client_name) ==
  LET normalized == join(<<Space>>, split(strip(client_name, Whitespace)))
      words == split(normalized)
  IN join(<<Hyphen>>, [i \in 1..Len(words) |-> capitalize(words[i])])

\* f"{suffix:03d}" for a suffix below 1000
Format03d(n) ==
  <<Digits[(n \div 100) + 1], Digits[((n \div 10) % 10) + 1],
    Digits[(n % 10) + 1]>>

\* re.search(r'(\d+)$', s): the digits s ends with (<<>>: no match)
RECURSIVE TrailingDigits(_)
TrailingDigits(str) ==
  IF str = <<>> \/ str[Len(str)] \notin DigitChars THEN <<>>
  ELSE TrailingDigits(SubSeq(str, 1, Len(str) - 1)) \o <<str[Len(str)]>>

\* int(digits)
RECURSIVE ParseInt(_)
ParseInt(ds) ==
  IF ds = <<>> THEN 0
  ELSE 10 * ParseInt(SubSeq(ds, 1, Len(ds) - 1)) + DigitOf(ds[Len(ds)])

startswith(str, prefix) ==
  Len(prefix) <= Len(str) /\ SubSeq(str, 1, Len(prefix)) = prefix

\* the order of the characters of a project name (their code points)
CodePoint(c) ==
  IF c = Hyphen THEN 45
  ELSE IF c \in DigitChars THEN 48 + DigitOf(c)
  ELSE IF c = "A" THEN 65
  ELSE 97

\* string comparison, as Max('project_name') orders the names
RECURSIVE StrLess(_, _)
StrLess(x, y) ==
  IF y = <<>> THEN FALSE
  ELSE IF x = <<>> THEN TRUE
  ELSE IF Head(x) # Head(y) THEN CodePoint(Head(x)) < CodePoint(Head(y))
  ELSE StrLess(Tail(x), Tail(y))

\* a row without a project name (project_name is NULL)
NoName == <<"NULL">>

\* lines 11-13: filter(project_name__startswith=base).aggregate(Max(...))
\* over the project names stored in the ledger
LastName(stored, base) ==
  LET matching == {n \in stored : n # NoName /\ startswith(n, base)}
  IN IF matching = {} THEN <<>>
     ELSE CHOOSE m \in matching : \A n \in matching : ~StrLess(m, n)

generate_project_name(client_name, stored) ==
  LET base == base_name(client_name)
      last_name == LastName(stored, base)
      suffix == IF last_name # <<>>
                  THEN IF TrailingDigits(last_name) # <<>>
                         THEN ParseInt(TrailingDigits(last_name)) + 1
                         ELSE 1
                  ELSE 1
  IN base \o <<Hyphen>> \o Format03d(suffix)

\* the tenants of one client, each with a ledger row of its own
Tenants == 1..MaxTenants

\* client names a request can carry (views.py:36 rejects the empty one)
ClientNames ==
  {<<"a">>, <<"A", "A">>, <<Space>>, <<Space, "a", Space, Space, "a">>}

\* pc: "none" outside a run, "start" at the head of create_project_task,
\* "named" once generate_project_name has returned, "saved" after pr.save()
NamesFor(client_name) ==
  [client_name |-> client_name,
   pc |-> [t \in Tenants |-> "start"],
   local |-> [t \in Tenants |-> NoName],
   project_name |-> [t \in Tenants |-> NoName]]

NoNames ==
  [client_name |-> <<>>,
   pc |-> [t \in Tenants |-> "none"],
   local |-> [t \in Tenants |-> NoName],
   project_name |-> [t \in Tenants |-> NoName]]

VARIABLES
  pr,             \* the ledger row of the tenant
  plat,           \* the deployment platform
  health_fields,  \* the ledger model declares the health-loop fields
  jobs,           \* the scheduler's job store: pending jobs (id, ticket,
                  \* delay in seconds from the scheduling to the run date)
  sched_calls,    \* calls of schedule_provision_job so far
  sched_ret,      \* ticket of the job the last schedule_provision_job returned
  jobs_added,     \* provision jobs ever added to the job store
  runs_started,   \* provision jobs that started provision_tenant_task
  skipped,        \* provision jobs dropped because an instance was running
  run,            \* per worker: the orchestrator run it executes
  ok_calls,       \* remote calls that have returned successfully so far
  last_domains,   \* the last execution of create_domains_task
  last_health,    \* the last health-check attempt, and the callbacks so far
  view,           \* the submission endpoint: ledger rows, requests, jobs
  client,         \* one call of the Platform Client's _post / _get
  pure,           \* one application of a helper function: name, input, output
  names           \* project naming: the tenants of one client and their rows

vars ==
  <<pr, plat, health_fields, jobs, sched_calls, sched_ret, jobs_added,
    runs_started, skipped, run, ok_calls, last_domains, last_health, view,
    client, pure, names>>

Workers == 1..MaxWorkers

ProvisionJobId == "provision-{id}"
\* tasks.py:208 and scheduler.py:154: the two ids of a health-check job
OrchestratorHealthJobId == "backend_health_provision_{id}"
RescheduleHealthJobId == "backend-health-{id}"
HealthJobIds == {OrchestratorHealthJobId, RescheduleHealthJobId}

\* a worker that runs nothing; the fields after pc and snap_super record
\* the history of the run for the properties below:
\*   start_flags     the completion flags true when the run started
\*   started_failed  failed was true when the run started
\*   calls           the remote calls issued in the run
\*   fail_seen       a step function of the run has failed
\*   late_calls      the remote calls issued after a step function failed
\*   steps           the step functions invoked in the run
\*   health_scheduled the run has scheduled a health-check job
\*   result          what the run returned ("raised": an exception escaped)
RunIdle ==
  [pc |-> "idle", snap_super |-> FALSE, start_flags |-> {},
   started_failed |-> FALSE, calls |-> {}, fail_seen |-> FALSE,
   late_calls |-> {}, steps |-> {}, health_scheduled |-> FALSE,
   result |-> "none"]

NoDomains ==
  [invoked |-> FALSE, log |-> <<>>, failed |-> FALSE,
   frontend_domain_before |-> FALSE, frontend_domain |-> FALSE,
   domains_configured |-> FALSE, ret |-> "go"]

\* ---------------------------------------------- submission endpoint: data
Requests == 1..MaxRequests

\* client_ref of a request: absent (None), empty, or a correlation id
NoRef == "None"
Refs == {NoRef, "", "x"}
Subdomains == {"", "a", "b"}
\* secret1/secret2 and client_name of a request
Credentials == {"ok", "unauthorized", "no_client_name"}
\* the statuses the workflow writes to a row once its job runs
WorkflowStatuses == {"provisioning", "failed", "completed"}

NoResponse == [code |-> 0, detail |-> "", id |-> 0, status |-> ""]

\* a request not yet submitted.  dup_of: the row that had the request's
\* correlation id and subdomain when the request arrived (0: none);
\* row: the row the request created; scheduled: jobs the request added
IdleRequest ==
  [pc |-> "idle", client_ref |-> NoRef, subdomain |-> "", dup_of |-> 0,
   row |-> 0, scheduled |-> 0, resp |-> NoResponse]

\* rows: the ledger (a row's id is its index); jobs[i]: the pending jobs of
\* row i; added[i]: the jobs ever scheduled for row i
NoView ==
  [rows |-> <<>>, jobs |-> <<>>, added |-> <<>>,
   reqs |-> [r \in Requests |-> IdleRequest]]

\* ------------------------------------------------- Platform Client: data
\* dokploy_client.py:15-17 and 34: the settings and their defaults
DefaultSettings ==
  [DOKPLOY_RETRY_DELAY |-> 3, DOKPLOY_BACKOFF_FACTOR |-> 2,
   DOKPLOY_MAX_RETRY_DELAY_CAP |-> 60]

Settings ==
  [DOKPLOY_RETRY_DELAY : {1, 3}, DOKPLOY_BACKOFF_FACTOR : {2, 3},
   DOKPLOY_MAX_RETRY_DELAY_CAP : {20, 60}]

\* no call in progress.  attempt: the loop variable; outcomes: the HTTP
\* attempts made so far, in order; sleeps: the delays slept so far;
\* result: "none" (running), "returned", "returned_none", "raised"
ClientIdle(st) ==
  [settings |-> st, pc |-> "idle", method |-> "none", retry |-> FALSE,
   max_retries |-> 0, attempt |-> 0, outcomes |-> <<>>, sleeps |-> <<>>,
   result |-> "none"]

\* no helper function applied yet
NoApplication == [fn |-> "none", arg |-> <<>>, out |-> <<>>]

\* no health-check attempt yet.  poll: "none", "healthy", "unhealthy";
\* callback: "none", "ok", "failed"; completed_before / failed_before: the
\* row's flags when the attempt started; scheduled: the attempt has
\* scheduled a further health-check job; callbacks_ok: successful
\* callbacks of all attempts so far; running: the ids of the jobs whose
\* attempt has read the row (row_read) and is polling
NoHealth ==
  [poll |-> "none", callback |-> "none", completed_before |-> FALSE,
   failed_before |-> FALSE, scheduled |-> FALSE, callbacks_ok |-> 0,
   running |-> {}, row_read |-> [id \in HealthJobIds |-> ProvisionRequest]]

\* The row exists (the view has created it and scheduled nothing yet), the
\* platform holds nothing for the tenant, the job store is empty.  The
\* health-loop fields (super_user_created, backend_health_tries) are read
\* by tasks.py:193 and scheduler.py:88 but models.py does not declare them:
\* both ledger models are considered, the one of models.py (FALSE: reading
\* the attribute raises AttributeError) and one that declares them (TRUE).
OrchInit ==
  /\ pr = ProvisionRequest
  /\ plat = PlatformInit
  /\ health_fields \in BOOLEAN
  /\ jobs = {}
  /\ sched_calls = 0
  /\ sched_ret = 0
  /\ jobs_added = 0
  /\ runs_started = 0
  /\ skipped = 0
  /\ run = [w \in Workers |-> RunIdle]
  /\ ok_calls = {}
  /\ last_domains = NoDomains
  /\ last_health = NoHealth

Init ==
  /\ OrchInit
  /\ view = NoView
  /\ client = ClientIdle(DefaultSettings)
  /\ pure = NoApplication
  /\ names = NoNames

\* ------------------------------------------------------ scheduler adapter
JobsWithId(js, id) == {j \in js : j.id = id}
PendingJobs(id) == JobsWithId(jobs, id)

\* scheduler.add_job(..., replace_existing=True)
AddReplacing(js, id, delay) ==
  {j \in js : j.id # id} \cup {[id |-> id, ticket |-> 0, delay |-> delay]}

\* run_in_seconds as the view passes it (views.py:94)
run_in_seconds == 1

\* schedule_provision_job without the get_job check
schedule_provision_job_unchecked(js, ticket) ==
  [jobs |-> js \cup {[id |-> ProvisionJobId, ticket |-> ticket,
                       delay |-> run_in_seconds]},
   ret |-> ticket, added |-> 1]

\* the job store after schedule_provision_job and the ticket it returns
schedule_provision_job(js, ticket) ==
  IF JobsWithId(js, ProvisionJobId) # {}
    THEN [jobs |-> js,
          ret |-> (CHOOSE j \in JobsWithId(js, ProvisionJobId) : TRUE).ticket,
          added |-> 0]
    ELSE [jobs |-> js \cup {[id |-> ProvisionJobId, ticket |-> ticket,
                       delay |-> run_in_seconds]},
          ret |-> ticket, added |-> 1]

ScheduleProvisionJob ==
  /\ sched_calls < MaxScheduleCalls
  /\ LET r == schedule_provision_job(jobs, sched_calls + 1)
     IN /\ jobs' = r.jobs
        /\ sched_ret' = r.ret
        /\ jobs_added' = jobs_added + r.added
  /\ sched_calls' = sched_calls + 1
  /\ UNCHANGED <<pr, plat, health_fields, runs_started, skipped, run, ok_calls,
                 last_domains, last_health, view, client, pure, names>>

Running == {w \in Workers : run[w].pc # "idle"}

\* an executor without an instance limit
CanSubmitUnlimited(running) == Cardinality(running) >= 0

\* the executor accepts a due job unless max_instances instances of it run
CanSubmit(running) == Cardinality(running) < MaxInstances

FlagsTrue(p) == {f \in Flags : p[f]}

\* A due provision job is taken from the job store (a "date" job runs once)
\* and provision_tenant_task starts on a free worker.
StartProvisionJob(w) ==
  /\ \E j \in PendingJobs(ProvisionJobId) : jobs' = jobs \ {j}
  /\ CanSubmit(Running)
  /\ run[w].pc = "idle"
  /\ \A v \in Workers : v < w => run[v].pc # "idle"
  /\ run' = [run EXCEPT ![w] =
               [RunIdle EXCEPT !.pc = "step1",
                               !.start_flags = FlagsTrue(pr),
                               !.started_failed = pr.failed]]
  /\ runs_started' = runs_started + 1
  /\ UNCHANGED <<pr, plat, health_fields, sched_calls, sched_ret, jobs_added,
                 skipped, ok_calls, last_domains, last_health, view, client, pure, names>>

\* A due provision job whose instance limit is reached is skipped and
\* removed from the job store.
SkipProvisionJob ==
  /\ \E j \in PendingJobs(ProvisionJobId) : jobs' = jobs \ {j}
  /\ ~CanSubmit(Running)
  /\ skipped' = skipped + 1
  /\ UNCHANGED <<pr, plat, health_fields, sched_calls, sched_ret, jobs_added,
                 runs_started, run, ok_calls, last_domains, last_health, view, client, pure, names>>

\* ------------------------------------------ orchestrator: one run, by step
CallNames(log) == {log[i].call : i \in 1..Len(log)}
OkNames(log) == {log[i].call : i \in {k \in 1..Len(log) : log[k].ok}}

\* the run's history after a step function returned context c
Recorded(r, step, c) ==
  [r EXCEPT !.calls = @ \cup CallNames(c.log),
            !.late_calls = @ \cup (IF r.fail_seen THEN CallNames(c.log) ELSE {}),
            !.fail_seen = @ \/ (c.ret = "false"),
            !.steps = @ \cup {step}]

\* provision_tenant_task returns False
ReturnFalse(r) == [r EXCEPT !.pc = "idle", !.result = "false"]

\* an exception of a step function leaves provision_tenant_task, which
\* calls the step functions outside any try
Raised(r) == [r EXCEPT !.pc = "idle", !.result = "raised"]

\* a step function returned c; the run goes on at pc next when ok, else
\* returns False
AfterStep(w, step, c, ok, next) ==
  /\ pr' = c.pr
  /\ plat' = c.plat
  /\ ok_calls' = ok_calls \cup OkNames(c.log)
  /\ run' = [run EXCEPT ![w] =
               IF c.ret = "raise" THEN Raised(Recorded(@, step, c))
               ELSE IF ok THEN [Recorded(@, step, c) EXCEPT !.pc = next]
               ELSE ReturnFalse(Recorded(@, step, c))]

\* the step's completion predicate already holds: go on
SkipStep(w, next) ==
  /\ run' = [run EXCEPT ![w].pc = next]
  /\ UNCHANGED <<pr, plat, ok_calls>>

\* Step 1: project (lines 102-110)
OrchProject(w) ==
  /\ run[w].pc = "step1"
  /\ IF ~pr.project_created
       THEN \E o \in CreateOutcomes :
              LET c == create_project_task(pr, plat, o)
              IN AfterStep(w, "project", c, c.ret = "true", "step2")
       ELSE SkipStep(w, "step2")
  /\ UNCHANGED <<health_fields, jobs, sched_calls, sched_ret, jobs_added,
                 runs_started, skipped, last_domains, last_health, view, client, pure, names>>

\* Step 2: backend service (lines 115-123)
OrchBackend(w) ==
  /\ run[w].pc = "step2"
  /\ IF ~(pr.backend_created /\ pr.backend_git_attached
          /\ pr.backend_build_configured)
       THEN \E o \in BackendOutcomes :
              LET c == create_backend_service_task(pr, plat, o)
              IN AfterStep(w, "backend", c, c.ret = "true", "step3")
       ELSE SkipStep(w, "step3")
  /\ UNCHANGED <<health_fields, jobs, sched_calls, sched_ret, jobs_added,
                 runs_started, skipped, last_domains, last_health, view, client, pure, names>>

\* Step 3: postgres and backend environment (lines 128-137)
OrchPostgres(w) ==
  /\ run[w].pc = "step3"
  /\ IF ~(pr.db_created /\ pr.backend_env_configured)
       THEN \E o \in PostgresOutcomes :
              LET c == create_postgres_task(pr, plat, o)
              IN AfterStep(w, "postgres", c, c.ret = "true", "step4")
       ELSE SkipStep(w, "step4")
  /\ UNCHANGED <<health_fields, jobs, sched_calls, sched_ret, jobs_added,
                 runs_started, skipped, last_domains, last_health, view, client, pure, names>>

\* what the orchestrator concludes from deploy_db_then_app_quick's
\* (pg_resp, app_resp): "if pg_resp is None: return False" (lines 147-150)
DeployOk(c) == c.pg_resp

\* Step 4: deploy db then backend (lines 142-154)
OrchDeploy(w) ==
  /\ run[w].pc = "step4"
  /\ IF ~(pr.postgres_deploy_triggered /\ pr.backend_deploy_triggered)
       THEN \E o \in DeployOutcomes :
              LET c == deploy_db_then_app_quick(pr, plat, o)
              IN AfterStep(w, "deploy", c, DeployOk(c), "step5")
       ELSE SkipStep(w, "step5")
  /\ UNCHANGED <<health_fields, jobs, sched_calls, sched_ret, jobs_added,
                 runs_started, skipped, last_domains, last_health, view, client, pure, names>>

\* Step 5: frontend service (lines 166-176)
OrchFrontend(w) ==
  /\ run[w].pc = "step5"
  /\ IF ~(pr.frontend_created /\ pr.frontend_git_attached
          /\ pr.frontend_build_configured /\ pr.frontend_deploy_triggered)
       THEN \E o \in FrontendOutcomes :
              LET c == create_frontend_service_task(pr, plat, o)
              IN AfterStep(w, "frontend", c, c.ret = "true", "step6")
       ELSE SkipStep(w, "step6")
  /\ UNCHANGED <<health_fields, jobs, sched_calls, sched_ret, jobs_added,
                 runs_started, skipped, last_domains, last_health, view, client, pure, names>>

\* Step 6: domains (lines 178-188); the refresh of line 180 is the last one
\* before "pr.super_user_created" is read at line 193
OrchDomains(w) ==
  /\ run[w].pc = "step6"
  /\ IF ~pr.domains_configured
       THEN \E o \in DomainOutcomes :
              LET c == create_domains_task(pr, plat, o)
              IN /\ pr' = c.pr
                 /\ plat' = c.plat
                 /\ ok_calls' = ok_calls \cup OkNames(c.log)
                 /\ run' = [run EXCEPT ![w] =
                      IF c.ret = "true"
                        THEN [Recorded(@, "domains", c) EXCEPT
                                !.pc = "step7",
                                !.snap_super = pr.super_user_created]
                        ELSE ReturnFalse(Recorded(@, "domains", c))]
                 /\ last_domains' =
                      [invoked |-> TRUE, log |-> c.log, failed |-> c.pr.failed,
                       frontend_domain_before |-> pr.frontend_domain,
                       frontend_domain |-> c.pr.frontend_domain,
                       domains_configured |-> c.pr.domains_configured,
                       ret |-> c.ret]
       ELSE /\ run' = [run EXCEPT ![w].pc = "step7",
                                  ![w].snap_super = pr.super_user_created]
            /\ UNCHANGED <<pr, plat, ok_calls, last_domains>>
  /\ UNCHANGED <<health_fields, jobs, sched_calls, sched_ret, jobs_added,
                 runs_started, skipped, last_health, view, client, pure, names>>

\* tasks.py:90: the pause between steps, also the delay of the health job
global_deley == 2

\* Step 7: schedule the health check and return True (lines 192-214).
\* Without the health-loop fields "pr.super_user_created" raises.
OrchHealth(w) ==
  /\ run[w].pc = "step7"
  /\ IF ~health_fields
       THEN /\ run' = [run EXCEPT ![w] = Raised(@)]
            /\ UNCHANGED jobs
       ELSE IF ~run[w].snap_super
         THEN /\ jobs' = AddReplacing(jobs, OrchestratorHealthJobId,
                                      global_deley)
              /\ run' = [run EXCEPT ![w].pc = "idle", ![w].result = "true",
                                    ![w].health_scheduled = TRUE]
         ELSE /\ run' = [run EXCEPT ![w].pc = "idle", ![w].result = "true"]
              /\ UNCHANGED jobs
  /\ UNCHANGED <<pr, plat, health_fields, sched_calls, sched_ret, jobs_added,
                 runs_started, skipped, ok_calls, last_domains, last_health, view, client, pure, names>>

\* ------------------------------------------------------ health-check loop
HealthOutcomes == {"unhealthy", "healthy_ok", "healthy_callback_failed"}

\* a give-up test that allows one more try
GiveUpLate(tries) == tries > MaxHealthTries

\* scheduler.py:131: the try counter has reached the limit
GiveUp(tries) == tries >= MaxHealthTries

\* a backoff without the one-hour cap
delay_minutes_uncapped(tries) == 2 ^ (tries - 1)

\* scheduler.py:143-146: minutes to wait after the tries-th unhealthy poll
delay_minutes(tries) == IF tries <= 6 THEN 2 ^ (tries - 1) ELSE 60

\* a callback whose failure leaves the row as it was
HealthCallbackForgets(p, js, ok) ==
  IF ok
    THEN [pr |-> [p EXCEPT !.completed = TRUE, !.status = "completed",
                           !.super_user_created = TRUE,
                           !.detail = Append(@, "internal_provision_success")],
          jobs |-> js, callback |-> "ok", scheduled |-> FALSE]
    ELSE [pr |-> p, jobs |-> js, callback |-> "failed", scheduled |-> FALSE]

\* scheduler.py:99-127: the poll was healthy: call /internal/provision once
HealthCallback(p, js, ok) ==
  IF ok
    THEN [pr |-> [p EXCEPT !.completed = TRUE, !.status = "completed",
                           !.super_user_created = TRUE,
                           !.detail = Append(@, "internal_provision_success")],
          jobs |-> js, callback |-> "ok", scheduled |-> FALSE]
    ELSE [pr |-> Note(MarkFailed(p), "internal_provision_failed"),
          jobs |-> js, callback |-> "failed",
          scheduled |-> FALSE]

\* scheduler.py:129-167: the poll was unhealthy: count the try, give up or
\* reschedule with backoff
HealthRetry(p, js) ==
  LET tries == p.backend_health_tries + 1
      counted == [p EXCEPT !.backend_health_tries = tries]
  IN IF GiveUp(tries)
       THEN [pr |-> Note(MarkFailed(counted),
                         "backend never became healthy after 10 tries"),
             jobs |-> js, callback |-> "none",
             scheduled |-> FALSE]
       ELSE LET waiting == [counted EXCEPT
                              !.backend_next_wait = delay_minutes(tries) * 60,
                              !.detail = Append(@, "retry next_wait")]
            IN [pr |-> waiting,
                jobs |-> AddReplacing(js, RescheduleHealthJobId,
                                      waiting.backend_next_wait),
                callback |-> "none", scheduled |-> TRUE]

\* the row and the job store after one attempt with poll outcome o
\* (scheduler.py:87-167), for a ledger that has the health-loop fields
backend_health_and_provision_attempt(p, js, o) ==
  IF o = "healthy_ok" THEN HealthCallback(p, js, TRUE)
  ELSE IF o = "healthy_callback_failed" THEN HealthCallback(p, js, FALSE)
  ELSE HealthRetry(p, js)

\* A due health-check job is taken from the job store and the attempt
\* starts: it reads the row (scheduler.py:74).  Without a backend domain
\* it fails the row at once (lines 79-85); without the health-loop fields
\* line 88 raises.  Otherwise it goes on to poll /healthz (up to 10 s) and
\* to call /internal/provision (up to 15 s) with the row object it has
\* read; orchestrator steps and the attempt of the job with the other id
\* may run in the meantime (max_instances=1 is per job id).
HealthStart ==
  /\ \E j \in jobs :
       /\ j.id \in HealthJobIds \ last_health.running
       /\ jobs' = jobs \ {j}
       /\ IF ~pr.backend_domain
            THEN /\ pr' = Note(MarkFailed(pr), "backend_domain missing")
                 /\ UNCHANGED last_health
          ELSE IF ~health_fields
            THEN UNCHANGED <<pr, last_health>>
          ELSE /\ last_health' =
                    [last_health EXCEPT !.running = @ \cup {j.id},
                                        !.row_read[j.id] = pr]
               /\ UNCHANGED pr
  /\ UNCHANGED <<plat, health_fields, sched_calls, sched_ret, jobs_added,
                 runs_started, skipped, run, ok_calls, last_domains, view,
                 client, pure, names>>

\* A due health-check job whose previous instance is still running is
\* skipped and removed from the job store.
HealthSkip ==
  /\ \E j \in jobs :
       /\ j.id \in HealthJobIds \cap last_health.running
       /\ jobs' = jobs \ {j}
  /\ UNCHANGED <<pr, plat, health_fields, sched_calls, sched_ret, jobs_added,
                 runs_started, skipped, run, ok_calls, last_domains,
                 last_health, view, client, pure, names>>

\* The attempt ends: pr.save() writes every field of the row object the
\* attempt has read (no update_fields, no refresh) over the ledger row.
HealthFinish ==
  \E id \in last_health.running, o \in HealthOutcomes :
    LET r == backend_health_and_provision_attempt(last_health.row_read[id],
                                                  jobs, o)
    IN /\ pr' = r.pr
       /\ jobs' = r.jobs
       /\ last_health' =
            [poll |-> IF o = "unhealthy" THEN "unhealthy" ELSE "healthy",
             callback |-> r.callback,
             completed_before |-> last_health.row_read[id].completed,
             failed_before |-> last_health.row_read[id].failed,
             scheduled |-> r.scheduled,
             callbacks_ok |-> last_health.callbacks_ok
               + (IF r.callback = "ok" THEN 1 ELSE 0),
             running |-> last_health.running \ {id},
             row_read |-> [last_health.row_read EXCEPT
                             ![id] = ProvisionRequest]]
       /\ UNCHANGED <<plat, health_fields, sched_calls, sched_ret,
                      jobs_added, runs_started, skipped, run, ok_calls,
                      last_domains, view, client, pure, names>>

\* one step of a health-check attempt
HealthAttempt == HealthStart \/ HealthFinish

Next ==
  \/ ScheduleProvisionJob
  \/ \E w \in Workers : StartProvisionJob(w)
  \/ SkipProvisionJob
  \/ \E w \in Workers : OrchProject(w)
  \/ \E w \in Workers : OrchBackend(w)
  \/ \E w \in Workers : OrchPostgres(w)
  \/ \E w \in Workers : OrchDeploy(w)
  \/ \E w \in Workers : OrchFrontend(w)
  \/ \E w \in Workers : OrchDomains(w)
  \/ \E w \in Workers : OrchHealth(w)
  \/ HealthStart
  \/ HealthSkip
  \/ HealthFinish

Spec == Init /\ [][Next]_vars

\* The scheduler runs every due job: a pending health-check job is
\* eventually executed.
FairSpec == Spec /\ WF_vars(HealthAttempt)

\* ===================================================== submission endpoint
\* provision_request_view, one action per database operation, so that
\* concurrent requests interleave between them.
orch_vars ==
  <<pr, plat, health_fields, jobs, sched_calls, sched_ret, jobs_added,
    runs_started, skipped, run, ok_calls, last_domains, last_health>>

Response(code, detail, id, status) ==
  [code |-> code, detail |-> detail, id |-> id, status |-> status]

RowIds(rows) == 1..Len(rows)
RowsWithSubdomain(rows, sub) == {i \in RowIds(rows) : rows[i].subdomain = sub}
RowsWithRef(rows, ref) == {i \in RowIds(rows) : rows[i].client_ref = ref}

\* the request ends with a response
Respond(q, resp) == [q EXCEPT !.pc = "done", !.resp = resp]

\* views.py:30-52: secrets, required fields, then the subdomain lookup
ViewSubmit(r) ==
  /\ view.reqs[r].pc = "idle"
  /\ \E cred \in Credentials, ref \in Refs, sub \in Subdomains :
       LET dup == IF ref \in {NoRef, ""} THEN {}
                  ELSE RowsWithRef(view.rows, ref)
                         \cap RowsWithSubdomain(view.rows, sub)
           q == [view.reqs[r] EXCEPT
                   !.client_ref = ref, !.subdomain = sub,
                   !.dup_of = IF dup = {} THEN 0 ELSE CHOOSE i \in dup : TRUE]
       IN view' = [view EXCEPT !.reqs[r] =
            IF cred = "unauthorized"
              THEN Respond(q, Response(401, "Unauthorized", 0, ""))
            ELSE IF cred = "no_client_name"
              THEN Respond(q, Response(400, "client_name is required", 0, ""))
            ELSE IF sub = ""
              THEN Respond(q, Response(400, "subdomain is required", 0, ""))
            ELSE IF RowsWithSubdomain(view.rows, sub) # {}
              THEN Respond(q, Response(400, "subdomain already exist", 0, ""))
            ELSE [q EXCEPT !.pc = "check_ref"]]
  /\ UNCHANGED <<orch_vars, client, pure, names>>

\* views.py:53-72: the idempotency lookup by client_ref
ViewCheckRef(r) ==
  /\ view.reqs[r].pc = "check_ref"
  /\ LET q == view.reqs[r]
         found == IF q.client_ref \in {NoRef, ""} THEN {}
                  ELSE RowsWithRef(view.rows, q.client_ref)
     IN view' = [view EXCEPT !.reqs[r] =
          IF found = {} THEN [q EXCEPT !.pc = "create"]
          ELSE LET i == CHOOSE i \in found : TRUE
                   existing == view.rows[i]
               IN IF existing.status = "completed"
                    THEN Respond(q, Response(200, "already_provisioned", i,
                                             existing.status))
                    ELSE Respond(q, Response(202, "already_exists", i,
                                             existing.status))]
  /\ UNCHANGED <<orch_vars, client, pure, names>>

\* a row set without the uniqueness constraints
UniqueViolationNever(rows, ref, sub) == FALSE

\* models.py:4,7: client_ref (when not null) and subdomain are unique
UniqueViolation(rows, ref, sub) ==
  \/ RowsWithSubdomain(rows, sub) # {}
  \/ ref # NoRef /\ RowsWithRef(rows, ref) # {}

\* views.py:74-82: ProvisionRequest.objects.create; an IntegrityError is
\* not caught by the view
ViewCreate(r) ==
  /\ view.reqs[r].pc = "create"
  /\ LET q == view.reqs[r]
     IN IF UniqueViolation(view.rows, q.client_ref, q.subdomain)
          THEN view' = [view EXCEPT !.reqs[r] =
                 Respond(q, Response(500, "IntegrityError", 0, ""))]
          ELSE view' = [view EXCEPT
                 !.rows = Append(@, [client_ref |-> q.client_ref,
                                     subdomain |-> q.subdomain,
                                     status |-> "pending"]),
                 !.jobs = Append(@, {}),
                 !.added = Append(@, 0),
                 !.reqs[r] = [q EXCEPT !.pc = "schedule",
                                       !.row = Len(view.rows) + 1]]
  /\ UNCHANGED <<orch_vars, client, pure, names>>

\* views.py:84-96: schedule the provision job of the new row and answer
ViewSchedule(r) ==
  /\ view.reqs[r].pc = "schedule"
  /\ LET q == view.reqs[r]
         res == schedule_provision_job(view.jobs[q.row], 1)
     IN view' = [view EXCEPT
          !.jobs[q.row] = res.jobs,
          !.added[q.row] = @ + res.added,
          !.reqs[r] = Respond([q EXCEPT !.scheduled = res.added],
                              Response(202, "accepted", q.row, ""))]
  /\ UNCHANGED <<orch_vars, client, pure, names>>

\* the job of a row runs: it leaves the job store and the workflow writes
\* a status to the row (tasks.py, scheduler.py: every "pr.status = ...")
RowProgress(i) ==
  /\ i \in RowIds(view.rows)
  /\ view.added[i] > 0
  /\ \E st \in WorkflowStatuses :
       /\ st # view.rows[i].status
       /\ view' = [view EXCEPT !.rows[i].status = st, !.jobs[i] = {}]
  /\ UNCHANGED <<orch_vars, client, pure, names>>

ViewNext ==
  \/ \E r \in Requests : ViewSubmit(r)
  \/ \E r \in Requests : ViewCheckRef(r)
  \/ \E r \in Requests : ViewCreate(r)
  \/ \E r \in Requests : ViewSchedule(r)
  \/ \E i \in 1..MaxRequests : RowProgress(i)

ViewInit == Init /\ ~health_fields

ViewSpec == ViewInit /\ [][ViewNext]_vars

\* ========================================================= Platform Client
\* One call of _post / _get (dokploy_client.py:40-141): the two wrappers
\* differ in the HTTP verb only.
HttpOutcomes == {"ok", "http_error", "network_error"}

Min(a, b) == IF a < b THEN a ELSE b

\* dokploy_client.py:30-37: the delay slept after failed attempt `attempt`
\* (the multiplier is the literal 2; DEFAULT_BACKOFF_FACTOR is not used)
_sleep_with_backoff(attempt, base_delay, st) ==
  LET delay == base_delay * (2 ^ (attempt - 1))
      max_cap == st.DOKPLOY_MAX_RETRY_DELAY_CAP
  IN IF delay > max_cap THEN max_cap ELSE delay

\* a retry test that allows one attempt more
MoreAttemptsInclusive(attempt, max_retries) == attempt <= max_retries

\* lines 89 and 137: "if attempt < max_retries": sleep and go on
MoreAttempts(attempt, max_retries) == attempt < max_retries

\* the call starts: _post or _get, retry on or off, max_retries given or
\* the default; "for attempt in range(1, max_retries + 1)" runs no
\* iteration when max_retries is 0 and the function returns None
ClientCall ==
  /\ client.pc \in {"idle", "done"}
  /\ \E method \in {"post", "get"}, retry \in BOOLEAN,
        max_retries \in 0..MaxRetries :
       LET c == [ClientIdle(client.settings) EXCEPT
                   !.method = method, !.retry = retry,
                   !.max_retries = IF retry THEN max_retries ELSE 0]
       IN /\ ~retry => max_retries = 0
          /\ client' =
               IF retry /\ max_retries = 0
                 THEN [c EXCEPT !.pc = "done", !.result = "returned_none"]
                 ELSE [c EXCEPT !.pc = "attempt", !.attempt = 1]
  /\ UNCHANGED <<orch_vars, view, pure, names>>

\* one HTTP attempt and what follows it: return the body, or sleep and go
\* on, or raise DokployError
ClientAttempt ==
  /\ client.pc = "attempt"
  /\ \E o \in HttpOutcomes :
       LET made == [client EXCEPT !.outcomes = Append(@, o)]
       IN client' =
            IF o = "ok"
              THEN [made EXCEPT !.pc = "done", !.result = "returned"]
            ELSE IF ~client.retry
              THEN [made EXCEPT !.pc = "done", !.result = "raised"]
            ELSE IF MoreAttempts(client.attempt, client.max_retries)
              THEN [made EXCEPT
                      !.sleeps = Append(@, _sleep_with_backoff(
                                   client.attempt,
                                   client.settings.DOKPLOY_RETRY_DELAY,
                                   client.settings)),
                      !.attempt = @ + 1]
            ELSE [made EXCEPT !.pc = "done", !.result = "raised"]
  /\ UNCHANGED <<orch_vars, view, pure, names>>

ClientNext ==
  \/ ClientCall
  \/ ClientAttempt

ClientInit ==
  /\ OrchInit
  /\ ~health_fields
  /\ view = NoView
  /\ client \in {ClientIdle(st) : st \in Settings}
  /\ pure = NoApplication
  /\ names = NoNames

ClientSpec == ClientInit /\ [][ClientNext]_vars

\* ======================================================== helper functions
\* extract_id_from_resp on responses whose values are character strings
\* (a string is a sequence of characters).
Chars == {"a", Space, Tab, DQuote, SQuote}

\* the strings of at most n characters
Strings(n) == UNION {[1..k -> Chars] : k \in 0..n}

\* a value of a response: a string, a nested dict (ordered key/value
\* pairs) or anything else (number, bool, null, list)
StrValue(v) == [t |-> "str", v |-> v, items |-> <<>>]
DictValue(items) == [t |-> "dict", v |-> <<>>, items |-> items]
OtherValue == [t |-> "other", v |-> <<>>, items |-> <<>>]
NoneValue == [t |-> "none", v |-> <<>>, items |-> <<>>]

\* what the function returns: a string or None
Nothing == [some |-> FALSE, v |-> <<>>]
Some(v) == [some |-> TRUE, v |-> v]

\* dict.get(key) on ordered pairs
RECURSIVE ItemsGet(_, _)
ItemsGet(items, key) ==
  IF items = <<>> THEN NoneValue
  ELSE IF Head(items)[1] = key THEN Head(items)[2]
  ELSE ItemsGet(Tail(items), key)

\* "isinstance(val, str) and val.strip()"
NonBlank(val) == val.t = "str" /\ strip(val.v, Whitespace) # <<>>

\* lines 57-60 and 64-67: the loop over priority_keys
RECURSIVE FirstPriorityStr(_, _)
FirstPriorityStr(items, keys) ==
  IF keys = <<>> THEN Nothing
  ELSE IF NonBlank(ItemsGet(items, Head(keys)))
    THEN Some(strip(ItemsGet(items, Head(keys)).v, Whitespace))
  ELSE FirstPriorityStr(items, Tail(keys))

\* lines 70-72: the first value that looks like an id
RECURSIVE FirstIdLikeStr(_)
FirstIdLikeStr(items) ==
  IF items = <<>> THEN Nothing
  ELSE LET v == Head(items)[2]
       IN IF /\ NonBlank(v)
             /\ \A i \in 1..Len(v.v) : v.v[i] # Space
             /\ Len(strip(v.v, Whitespace)) >= 6
            THEN Some(strip(v.v, Whitespace))
            ELSE FirstIdLikeStr(Tail(items))

\* tasks.py:27-74
extract_id_from_resp_str(resp) ==
  IF resp.t = "none" THEN Nothing
  ELSE IF resp.t = "str" THEN
    LET raw == strip(strip(strip(resp.v, Whitespace), {DQuote}), {SQuote})
    IN IF raw # <<>> THEN Some(raw) ELSE Nothing
  ELSE IF resp.t = "dict" THEN
    IF FirstPriorityStr(resp.items, priority_keys).some
      THEN FirstPriorityStr(resp.items, priority_keys)
    ELSE IF /\ ItemsGet(resp.items, "data").t = "dict"
            /\ FirstPriorityStr(ItemsGet(resp.items, "data").items,
                                priority_keys).some
      THEN FirstPriorityStr(ItemsGet(resp.items, "data").items, priority_keys)
    ELSE FirstIdLikeStr(resp.items)
  ELSE Nothing

\* string values of a structured response: empty, blank, short, short
\* with blanks around it, id-like, with a space inside, with a tab inside,
\* with a tab in front
FieldStrings ==
  {<<>>, <<Space>>, <<"p", "-", "1">>, <<Space, "x", "-", "9", Space>>,
   <<"a", "b", "c", "d", "e", "f">>,
   <<"a", "b", "c", Space, "d", "e", "f">>,
   <<"a", "b", "c", Tab, "d", "e", "f">>,
   <<Tab, "a", "b", "c", "d", "e", "f">>}

FieldValues == {StrValue(v) : v \in FieldStrings} \cup {OtherValue}

\* what a "data" field may hold
DataValues ==
  {DictValue(<<<<k, v>>>>) :
     k \in {"id", "name"},
     v \in {StrValue(<<"x", "-", "9">>), StrValue(<<Space>>), OtherValue}}
  \cup {OtherValue, StrValue(<<"a", "b", "c", "d", "e", "f">>)}

Pairs ==
  {<<k, v>> : k \in {"projectId", "id", "name"}, v \in FieldValues}
  \cup {<<"data", v>> : v \in DataValues}

\* the structured responses of at most n pairs with distinct keys
Dicts(n) ==
  {d \in UNION {[1..k -> Pairs] : k \in 0..n} :
     \A i, j \in 1..Len(d) : i # j => d[i][1] # d[j][1]}

Applied(fn, arg, out) == [fn |-> fn, arg |-> arg, out |-> out]

ExtractFromString ==
  /\ pure.fn = "none"
  /\ \E v \in Strings(MaxStrLen) :
       pure' = Applied("extract_id_from_resp", StrValue(v),
                       extract_id_from_resp_str(StrValue(v)))
  /\ UNCHANGED <<orch_vars, view, client, names>>

ExtractFromDict ==
  /\ pure.fn = "none"
  /\ \E d \in Dicts(MaxPairs) :
       pure' = Applied("extract_id_from_resp", DictValue(d),
                       extract_id_from_resp_str(DictValue(d)))
  /\ UNCHANGED <<orch_vars, view, client, names>>

ExtractFromOther ==
  /\ pure.fn = "none"
  /\ \E resp \in {NoneValue, OtherValue} :
       pure' = Applied("extract_id_from_resp", resp,
                       extract_id_from_resp_str(resp))
  /\ UNCHANGED <<orch_vars, view, client, names>>

HelperNext ==
  \/ ExtractFromString
  \/ ExtractFromDict
  \/ ExtractFromOther

HelperInit == Init /\ ~health_fields

HelperSpec == HelperInit /\ [][HelperNext]_vars

\* ========================================================== step functions
\* Each step function applied once, on its own, to a row of the ledger and
\* to the platform that goes with the row.  The rows are those the code can
\* leave behind: an id is recorded together with its "created" flag, the
\* later flags of a service need its id, a recorded domain needs both
\* application ids and a usable subdomain, domains_configured needs both
\* domains.
Sanitized(p) == _sanitize_subdomain(strip(p.subdomain, Whitespace))

Consistent(p) ==
  /\ p.project_created <=> p.project_id # None
  /\ p.backend_created <=> p.backend_id # None
  /\ p.backend_created => p.project_created
  /\ (p.backend_git_attached \/ p.backend_build_configured)
       => p.backend_created
  /\ (p.db_id # None \/ p.db_fields) => p.db_created
  /\ p.db_created => p.project_created /\ p.backend_created
  /\ p.backend_env_configured => p.db_created
  /\ (p.postgres_deploy_triggered \/ p.backend_deploy_triggered)
       => p.db_id # None /\ p.backend_created
  /\ p.backend_deploy_triggered => p.postgres_deploy_triggered
  /\ p.frontend_created <=> p.frontend_id # None
  /\ p.frontend_created => p.project_created
  /\ (p.frontend_git_attached \/ p.frontend_build_configured
        \/ p.frontend_deploy_triggered) => p.frontend_created
  /\ (p.frontend_domain \/ p.backend_domain)
       => p.frontend_created /\ p.backend_created /\ Sanitized(p) # <<>>
  /\ p.domains_configured => p.frontend_domain /\ p.backend_domain
  /\ (p.status = "failed") => p.failed

\* the ids of the resources of a row
ResourceIds == [project |-> 1, backend |-> 2, db |-> 3, frontend |-> 4]

\* a row with the given project and backend ids, created by a first run
\* that has or has not failed since
BaseRow(pid, bid, f) ==
  [ProvisionRequest EXCEPT
     !.project_id = pid, !.project_created = (pid # None),
     !.backend_id = bid, !.backend_created = (bid # None),
     !.failed = f, !.status = IF f THEN "failed" ELSE "provisioning",
     !.detail = IF pid # None THEN <<"Project created">> ELSE <<>>]

\* the platform that goes with a row
PlatformOf(p) ==
  [next_id |-> 7,
   projects |-> IF p.project_id # None THEN {p.project_id} ELSE {},
   backend_apps |-> IF p.backend_id # None THEN {p.backend_id} ELSE {},
   frontend_apps |-> IF p.frontend_id # None THEN {p.frontend_id} ELSE {},
   dbs |-> IF p.db_created
             THEN <<[id |-> ResourceIds.db, createdAt |-> 1,
                     shape |-> IF p.db_id = None THEN "noid"
                               ELSE IF p.db_fields THEN "full" ELSE "nocred",
                     project |-> p.project_id]>>
             ELSE <<>>,
   domains |-> (IF p.frontend_domain THEN {[id |-> 5, role |-> "frontend"]}
                ELSE {})
               \cup (IF p.backend_domain THEN {[id |-> 6, role |-> "backend"]}
                     ELSE {})]

BackendRows ==
  {p \in {[BaseRow(pid, bid, f) EXCEPT
             !.backend_git_attached = bg, !.backend_build_configured = bb] :
            pid \in {None, ResourceIds.project}, bid \in {None, ResourceIds.backend},
            bg \in BOOLEAN, bb \in BOOLEAN, f \in BOOLEAN} :
     Consistent(p)}

PostgresRows ==
  {p \in {[BaseRow(pid, bid, f) EXCEPT
             !.db_created = dc, !.db_id = did, !.db_fields = df,
             !.backend_env_configured = be] :
            pid \in {None, ResourceIds.project}, bid \in {None, ResourceIds.backend},
            dc \in BOOLEAN, did \in {None, ResourceIds.db}, df \in BOOLEAN,
            be \in BOOLEAN, f \in BOOLEAN} :
     Consistent(p)}

DeployRows ==
  {p \in {[BaseRow(ResourceIds.project, bid, f) EXCEPT
             !.db_created = (did # None), !.db_id = did,
             !.db_fields = (did # None),
             !.postgres_deploy_triggered = pd,
             !.backend_deploy_triggered = bd] :
            bid \in {None, ResourceIds.backend}, did \in {None, ResourceIds.db},
            pd \in BOOLEAN, bd \in BOOLEAN, f \in BOOLEAN} :
     Consistent(p)}

FrontendRows ==
  {p \in {[BaseRow(pid, None, f) EXCEPT
             !.frontend_id = fid, !.frontend_created = (fid # None),
             !.frontend_git_attached = fg, !.frontend_build_configured = fb,
             !.frontend_deploy_triggered = fd] :
            pid \in {None, ResourceIds.project}, fid \in {None, ResourceIds.frontend},
            fg \in BOOLEAN, fb \in BOOLEAN, fd \in BOOLEAN, f \in BOOLEAN} :
     Consistent(p)}

\* the subdomains of the rows: none, blank, nothing left once sanitized,
\* usable
RowSubdomains == {<<>>, <<Space>>, <<".">>, <<"A">>, <<"a", Hyphen>>}

DomainRows ==
  {p \in {[BaseRow(ResourceIds.project, bid, f) EXCEPT
             !.frontend_id = fid, !.frontend_created = (fid # None),
             !.subdomain = sub, !.frontend_domain = fdom,
             !.backend_domain = bdom, !.domains_configured = dcfg] :
            bid \in {None, ResourceIds.backend}, fid \in {None, ResourceIds.frontend},
            sub \in RowSubdomains, fdom \in BOOLEAN, bdom \in BOOLEAN,
            dcfg \in BOOLEAN, f \in BOOLEAN} :
     Consistent(p)}

\* the application of a step function to row p with call outcomes o
StepArg(p, o) == [pr |-> p, o |-> o]

\* create_project_task on a row without a project; the orchestrator calls
\* it only then (tasks.py:100)
StepProject ==
  /\ pure.fn = "none"
  /\ \E f \in BOOLEAN, o \in CreateOutcomes :
       pure' = Applied("create_project_task", StepArg(BaseRow(None, None, f), o),
                       create_project_task(BaseRow(None, None, f),
                                           PlatformOf(BaseRow(None, None, f)), o))
  /\ UNCHANGED <<orch_vars, view, client, names>>

StepBackend ==
  /\ pure.fn = "none"
  /\ \E p \in BackendRows, o \in BackendOutcomes :
       pure' = Applied("create_backend_service_task", StepArg(p, o),
                       create_backend_service_task(p, PlatformOf(p), o))
  /\ UNCHANGED <<orch_vars, view, client, names>>

StepPostgres ==
  /\ pure.fn = "none"
  /\ \E p \in PostgresRows, o \in PostgresOutcomes :
       pure' = Applied("create_postgres_task", StepArg(p, o),
                       create_postgres_task(p, PlatformOf(p), o))
  /\ UNCHANGED <<orch_vars, view, client, names>>

StepDeploy ==
  /\ pure.fn = "none"
  /\ \E p \in DeployRows, o \in DeployOutcomes :
       pure' = Applied("deploy_db_then_app_quick", StepArg(p, o),
                       deploy_db_then_app_quick(p, PlatformOf(p), o))
  /\ UNCHANGED <<orch_vars, view, client, names>>

StepFrontend ==
  /\ pure.fn = "none"
  /\ \E p \in FrontendRows, o \in FrontendOutcomes :
       pure' = Applied("create_frontend_service_task", StepArg(p, o),
                       create_frontend_service_task(p, PlatformOf(p), o))
  /\ UNCHANGED <<orch_vars, view, client, names>>

StepDomains ==
  /\ pure.fn = "none"
  /\ \E p \in DomainRows, o \in DomainOutcomes :
       pure' = Applied("create_domains_task", StepArg(p, o),
                       create_domains_task(p, PlatformOf(p), o))
  /\ UNCHANGED <<orch_vars, view, client, names>>

\* subdomains as the view stores them (views.py:84: the request's string,
\* unchanged; two rows never store the same string)
StoredSubdomains ==
  {<<"a">>, <<"A">>, <<Space, "a">>, <<"a", Hyphen>>, <<"a", ".", "b">>,
   <<"a", Hyphen, "b">>, <<"b">>, <<".">>, <<"0">>,
   <<"a", Hyphen, "b", "a", "c", "k", "e", "n", "d">>}

\* the hosts create_domains_task derives for two rows of the ledger
StepHosts ==
  /\ pure.fn = "none"
  /\ \E s1 \in StoredSubdomains : \E s2 \in StoredSubdomains \ {s1} :
       pure' = Applied("hosts", <<s1, s2>>,
                       <<RequestedHosts(s1), RequestedHosts(s2)>>)
  /\ UNCHANGED <<orch_vars, view, client, names>>

\* the postgres lists of at most n entries of project pid: the entry ids
\* are the positions, createdAt is a timestamp or 0 (no createdAt)
EntryLists(n, pid) ==
  UNION {{[i \in 1..k |-> [id |-> i, createdAt |-> ts[i], shape |-> "full",
                           project |-> pid]] :
            ts \in [1..k -> 0..2]} : k \in 0..n}

ListedProjects ==
  UNION {{[projectId |-> pid, postgres |-> l] : l \in EntryLists(MaxEntries, pid)} :
           pid \in {ResourceIds.project, ResourceIds.backend}}

\* the answers of project.all with at most two projects
ProjectLists ==
  {<<>>} \cup {<<a>> : a \in ListedProjects}
         \cup {<<a, b>> : a \in ListedProjects, b \in ListedProjects}

StepDiscover ==
  /\ pure.fn = "none"
  /\ \E projects_list \in ProjectLists :
       pure' = Applied("_fetch_postgres_entry_for_project",
                       [projects_list |-> projects_list,
                        project_id |-> ResourceIds.project],
                       _fetch_postgres_entry_for_project(
                         projects_list, ResourceIds.project))
  /\ UNCHANGED <<orch_vars, view, client, names>>

StepNext ==
  \/ StepDiscover
  \/ StepProject
  \/ StepBackend
  \/ StepPostgres
  \/ StepDeploy
  \/ StepFrontend
  \/ StepDomains
  \/ StepHosts

StepInit == Init /\ ~health_fields

StepSpec == StepInit /\ [][StepNext]_vars

\* ============================================================ project names
\* The project step of the tenants of one client (tasks.py:231-237).  Every
\* tenant has a row of its own and a provision job of its own id, so the
\* steps of different tenants interleave; the query of generate_project_name
\* and the save of the name are separate statements on the database.
StoredNames == {names.project_name[t] : t \in Tenants}

\* tasks.py:235 project_name = generate_project_name(pr.client_name)
NameGenerate(t) ==
  /\ names.pc[t] = "start"
  /\ names' = [names EXCEPT
                 !.pc[t] = "named",
                 !.local[t] = generate_project_name(names.client_name,
                                                    StoredNames)]
  /\ UNCHANGED <<orch_vars, view, client, pure>>

\* tasks.py:236-237 pr.project_name = project_name; pr.save()
NameSave(t) ==
  /\ names.pc[t] = "named"
  /\ names' = [names EXCEPT !.pc[t] = "saved",
                            !.project_name[t] = names.local[t]]
  /\ UNCHANGED <<orch_vars, view, client, pure>>

NameNext == \E t \in Tenants : NameGenerate(t) \/ NameSave(t)

NameInit ==
  /\ OrchInit
  /\ ~health_fields
  /\ view = NoView
  /\ client = ClientIdle(DefaultSettings)
  /\ pure = NoApplication
  /\ names \in {NamesFor(c) : c \in ClientNames}

NameSpec == NameInit /\ [][NameNext]_vars

\* ============================================================== properties
\* the remote calls whose success a completion flag stands for
FlagCalls(f) ==
  CASE f = "project_created" -> {"project.create"}
    [] f = "backend_created" -> {"application.create.backend"}
    [] f = "backend_git_attached" -> {"saveGitProvider.backend"}
    [] f = "backend_build_configured" -> {"saveBuildType.backend"}
    [] f = "db_created" -> {"postgres.create", "project.all"}
    [] f = "backend_env_configured" -> {"saveEnvironment"}
    [] f = "postgres_deploy_triggered" -> {"postgres.deploy"}
    [] f = "backend_deploy_triggered" -> {"application.deploy.backend"}
    [] f = "frontend_created" -> {"application.create.frontend"}
    [] f = "frontend_git_attached" -> {"saveGitProvider.frontend"}
    [] f = "frontend_build_configured" -> {"saveBuildType.frontend"}
    [] f = "frontend_deploy_triggered" -> {"application.deploy.frontend"}
    [] OTHER -> {"domain.create.frontend", "domain.create.backend"}

CallsOfFlags(fs) == UNION {FlagCalls(f) : f \in fs}

\* C1: in any orchestrator run, as soon as one step function fails the run
\* stops and returns failure: no remote call of a later step is issued in
\* that run and the run schedules no health-check job.
C1_StopsOnFirstFailure ==
  \A w \in Workers :
    /\ run[w].late_calls = {}
    /\ run[w].fail_seen =>
         /\ run[w].pc = "idle"
         /\ run[w].result = "false"
         /\ ~run[w].health_scheduled

\* C2: idempotent resume: a run issues no remote call that belongs to a
\* step or sub-step whose completion flag was already true when the run
\* started.
C2_NoCallForCompletedStep ==
  \A w \in Workers : run[w].calls \cap CallsOfFlags(run[w].start_flags) = {}

DbIds == {plat.dbs[i].id : i \in 1..Len(plat.dbs)}

\* C3: across any sequence of runs on the row each resource-creating call
\* (create-project, create-application for backend and for frontend,
\* create-database) succeeds at most once, and the ids stored in the ledger
\* are the ids of those single creations.
C3_SingleCreations ==
  /\ Cardinality(plat.projects) <= 1
  /\ Cardinality(plat.backend_apps) <= 1
  /\ Cardinality(plat.frontend_apps) <= 1
  /\ Len(plat.dbs) <= 1
  /\ pr.project_created => pr.project_id \in plat.projects
  /\ pr.backend_created => pr.backend_id \in plat.backend_apps
  /\ pr.frontend_created => pr.frontend_id \in plat.frontend_apps
  /\ pr.db_created => pr.db_id \in DbIds

\* C4: in every reachable state each completion flag that is true was set
\* after its remote call(s) returned successfully: no flag is true without
\* a successful response for its own action.
C4_FlagOnlyAfterSuccess ==
  \A f \in Flags : pr[f] => FlagCalls(f) \subseteq ok_calls

\* C4 witness: every completion flag has been set
C4_Witness == FlagsTrue(pr) = Flags

\* C5 (as stated): a run that starts on a row whose failed flag is true
\* invokes no step function, issues no remote call, changes no completion
\* flag and schedules no health-check job.
C5_FailedIsTerminal ==
  \A w \in Workers :
    run[w].started_failed =>
      /\ run[w].steps = {}
      /\ run[w].calls = {}
      /\ ~run[w].health_scheduled
      /\ run[w].pc # "idle" => FlagsTrue(pr) = run[w].start_flags

\* the health-check attempt of job id ends in this step
HealthEnds(id) ==
  /\ id \in last_health.running
  /\ last_health'.running = last_health.running \ {id}

\* C5 (amended): failed=true is sticky, not terminal: no step of an
\* orchestrator run resets failed to false and no health-check attempt
\* that has read failed=true does (failed goes back to false only when an
\* attempt saves a row it read before the failure), and a provision job
\* enters the job store only through a call of schedule_provision_job (no
\* automatic resume).
C5_FailedIsSticky ==
  [][/\ (pr.failed /\ ~pr'.failed)
        => \E id \in HealthJobIds :
             HealthEnds(id) /\ ~last_health.row_read[id].failed
     /\ \/ JobsWithId(jobs', ProvisionJobId) \subseteq JobsWithId(jobs, ProvisionJobId)
        \/ sched_calls' = sched_calls + 1]_vars

\* C5 witness: a run started on a failed row has issued remote calls and
\* set further completion flags, and failed is still true
C5_Witness ==
  \E w \in Workers :
    /\ run[w].started_failed
    /\ run[w].calls # {}
    /\ FlagsTrue(pr) # run[w].start_flags
    /\ pr.failed

C7_ScheduleIsIdempotent ==
  /\ [](/\ Cardinality(PendingJobs(ProvisionJobId)) <= 1
        /\ jobs_added = runs_started + skipped
                          + Cardinality(PendingJobs(ProvisionJobId)))
  /\ [][(sched_calls' = sched_calls + 1 /\ PendingJobs(ProvisionJobId) # {})
          => /\ jobs' = jobs
             /\ \E j \in PendingJobs(ProvisionJobId) : sched_ret' = j.ticket
             /\ jobs_added' = jobs_added]_vars

\* C7 witness: two calls, the second answered with the first call's job,
\* and that one job has been executed
C7_Witness ==
  /\ sched_calls = 2
  /\ sched_ret = 1
  /\ jobs_added = 1
  /\ runs_started = 1
  /\ skipped = 0
  /\ PendingJobs(ProvisionJobId) = {}

\* C8: for one tenant two orchestrator runs never overlap in time (so no
\* two step functions execute concurrently), under any interleaving of
\* schedule_provision_job calls, job starts and job completions.
C8_RunsNeverOverlap == Cardinality(Running) <= 1

\* C8 witness: a job scheduled while a run was executing came due during
\* that run
C8_Witness == skipped > 0 /\ Running # {}

DomainCalls(name) ==
  {i \in 1..Len(last_domains.log) : last_domains.log[i].call = name}

\* C10: whenever, in one run of create_domains_task, the frontend domain
\* creation succeeds and the backend domain creation then fails, the run
\* ends with failed=true, frontend_domain cleared, domains_configured false
\* and exactly one delete-domain call, for the id of the frontend domain
\* just created.
C10_DomainRollback ==
  (/\ last_domains.invoked
   /\ \E i \in DomainCalls("domain.create.frontend") : last_domains.log[i].ok
   /\ \E i \in DomainCalls("domain.create.backend") : ~last_domains.log[i].ok)
  => /\ last_domains.failed
     /\ ~last_domains.frontend_domain
     /\ ~last_domains.domains_configured
     /\ Cardinality(DomainCalls("domain.delete")) = 1
     /\ \A i \in DomainCalls("domain.delete") :
          \A k \in DomainCalls("domain.create.frontend") :
            last_domains.log[i].id = last_domains.log[k].id

\* the calls of the last create_domains_task execution that failed
FailedDomainCalls(name) ==
  {i \in DomainCalls(name) : ~last_domains.log[i].ok}

\* C11: a frontend domain already on record before a run of
\* create_domains_task is never deleted by that run: the run issues no
\* delete-domain call and leaves frontend_domain as it was, also when the
\* backend domain creation fails.
C11_PriorFrontendDomainKept ==
  (last_domains.invoked /\ last_domains.frontend_domain_before)
  => /\ DomainCalls("domain.delete") = {}
     /\ DomainCalls("domain.create.frontend") = {}
     /\ last_domains.frontend_domain

\* C11 witness: the backend domain creation failed in a run that found the
\* frontend domain on record
C11_Witness ==
  /\ last_domains.invoked
  /\ last_domains.frontend_domain_before
  /\ FailedDomainCalls("domain.create.backend") # {}
  /\ last_domains.ret = "false"

\* C12: in every reachable state domains_configured=true implies that
\* frontend_domain and backend_domain are both on record, that both
\* create-domain calls have succeeded, and that the platform still holds
\* the frontend domain (it was not rolled back afterwards).
C12_DomainsConfiguredMeansBoth ==
  pr.domains_configured
  => /\ pr.frontend_domain
     /\ pr.backend_domain
     /\ {"domain.create.frontend", "domain.create.backend"} \subseteq ok_calls
     /\ \E d \in plat.domains : d.role = "frontend"
     /\ \E d \in plat.domains : d.role = "backend"

\* C12 witness: domains are configured on a row that failed earlier
C12_Witness ==
  /\ pr.domains_configured
  /\ pr.failed
  /\ Cardinality(plat.domains) = 2

\* C13: in create_domains_task the frontend domain is attempted before the
\* backend domain, and when the frontend domain creation fails the run sets
\* failed=true and returns failure with no backend create-domain call and
\* no delete-domain call.
C13_FrontendDomainFirst ==
  /\ \A i \in DomainCalls("domain.create.frontend") :
       \A k \in DomainCalls("domain.create.backend") : i < k
  /\ FailedDomainCalls("domain.create.frontend") # {}
     => /\ last_domains.failed
        /\ last_domains.ret = "false"
        /\ DomainCalls("domain.create.backend") = {}
        /\ DomainCalls("domain.delete") = {}

\* C13 witness: the frontend domain creation failed
C13_Witness ==
  /\ last_domains.invoked
  /\ FailedDomainCalls("domain.create.frontend") # {}

Answered == {r \in Requests : view.reqs[r].pc = "done"}

\* C17: a request that repeats the correlation id and the subdomain of an
\* existing row is answered from that row: 'already_provisioned' with the
\* row's id and status when the status is 'completed', else
\* 'already_exists' with the row's id and current status; and it schedules
\* no job.
C17_DuplicateSubmission ==
  \A r \in Answered :
    view.reqs[r].dup_of # 0
    => /\ view.reqs[r].resp.id = view.reqs[r].dup_of
       /\ \/ /\ view.reqs[r].resp.status = "completed"
             /\ view.reqs[r].resp.detail = "already_provisioned"
          \/ /\ view.reqs[r].resp.status \in {"pending"} \cup WorkflowStatuses
             /\ view.reqs[r].resp.status # "completed"
             /\ view.reqs[r].resp.detail = "already_exists"
       /\ view.reqs[r].scheduled = 0

\* C18: after any interleaving of submissions at most one row exists for
\* each non-empty correlation id, and at most one job has ever been
\* scheduled for it.
C18_OneRowPerRef ==
  \A ref \in Refs \ {NoRef, ""} :
    /\ Cardinality(RowsWithRef(view.rows, ref)) <= 1
    /\ \A i \in RowsWithRef(view.rows, ref) : view.added[i] <= 1
    /\ Cardinality({r \in Requests : /\ view.reqs[r].client_ref = ref
                                     /\ view.reqs[r].scheduled > 0}) <= 1

\* C18 witness: two requests with the same correlation id both passed the
\* lookups; one created the row and scheduled its job, the other was
\* stopped by the uniqueness constraint
C18_Witness ==
  \E r1, r2 \in Answered :
    /\ view.reqs[r1].client_ref = "x"
    /\ view.reqs[r2].client_ref = "x"
    /\ view.reqs[r1].scheduled = 1
    /\ view.reqs[r2].resp.code = 500

\* the attempts of the current call that failed
FailedAttempts ==
  {i \in 1..Len(client.outcomes) : client.outcomes[i] # "ok"}

\* C19: the delay slept after failed attempt a is
\* min(cap, base * multiplier^(a-1)) for the configured base delay,
\* backoff multiplier and cap; with base 3, multiplier 2 and cap 60 the
\* delays of attempts 1..5 are 3, 6, 12, 24, 48.
C19_ClientBackoff ==
  /\ \A a \in 1..Len(client.sleeps) :
       client.sleeps[a] =
         Min(client.settings.DOKPLOY_MAX_RETRY_DELAY_CAP,
             client.settings.DOKPLOY_RETRY_DELAY
               * (client.settings.DOKPLOY_BACKOFF_FACTOR ^ (a - 1)))
  /\ <<_sleep_with_backoff(1, 3, DefaultSettings),
       _sleep_with_backoff(2, 3, DefaultSettings),
       _sleep_with_backoff(3, 3, DefaultSettings),
       _sleep_with_backoff(4, 3, DefaultSettings),
       _sleep_with_backoff(5, 3, DefaultSettings)>> = <<3, 6, 12, 24, 48>>

\* C20: with retry on and max_retries = N >= 1, a call whose attempts all
\* fail makes exactly N attempts, sleeps N-1 times and raises DokployError;
\* a call that first succeeds on attempt k <= N returns after exactly k
\* attempts (k-1 sleeps) and makes no further attempt.
C20_ClientRetries ==
  (client.retry /\ client.max_retries >= 1)
  => /\ Len(client.outcomes) <= client.max_retries
     /\ FailedAttempts = 1..Len(client.outcomes) /\ client.pc = "attempt"
        => /\ Len(client.outcomes) < client.max_retries
           /\ Len(client.sleeps) = Len(client.outcomes)
     /\ client.pc = "done"
        => \/ /\ client.result = "raised"
              /\ FailedAttempts = 1..client.max_retries
              /\ Len(client.outcomes) = client.max_retries
              /\ Len(client.sleeps) = client.max_retries - 1
           \/ /\ client.result = "returned"
              /\ FailedAttempts = 1..(Len(client.outcomes) - 1)
              /\ client.outcomes[Len(client.outcomes)] = "ok"
              /\ Len(client.sleeps) = Len(client.outcomes) - 1

\* C20 witness: a call with five attempts allowed has failed five times,
\* slept four times and raised
C20_Witness ==
  /\ client.pc = "done"
  /\ client.retry
  /\ client.max_retries = 5
  /\ client.result = "raised"
  /\ Len(client.outcomes) = 5
  /\ Len(client.sleeps) = 4

\* the positions of a structured response's pairs whose key is k
KeyAt(items, k) == {i \in 1..Len(items) : items[i][1] = k}

\* the places of the priority list whose key has a non-blank string value
Qualifying(items) ==
  {n \in 1..Len(priority_keys) :
     \E i \in KeyAt(items, priority_keys[n]) :
       /\ items[i][2].t = "str"
       /\ \E c \in 1..Len(items[i][2].v) : items[i][2].v[c] \notin Whitespace}

SmallestOf(S) == CHOOSE n \in S : \A m \in S : n <= m

\* the value under the first qualifying priority key, blanks trimmed
PriorityValue(items) ==
  LET key == priority_keys[SmallestOf(Qualifying(items))]
  IN strip(items[SmallestOf(KeyAt(items, key))][2].v, Whitespace)

\* the string fields without whitespace and with at least 6 characters
IdLikeFields(items) ==
  {i \in 1..Len(items) :
     /\ items[i][2].t = "str"
     /\ \A c \in 1..Len(items[i][2].v) : items[i][2].v[c] \notin Whitespace
     /\ Len(items[i][2].v) >= 6}

\* C21: for a structured response extract_id_from_resp returns the value
\* of the first priority key with a non-empty string value at top level;
\* only if there is none, the same from a nested data object; only if
\* there is none either, the first string field without whitespace and
\* with at least 6 characters; otherwise none.  ({projectId: p-1} gives
\* p-1, {data: {id: x-9}} gives x-9, {} gives none.)
C21_ExtractFromDict ==
  /\ (pure.fn = "extract_id_from_resp" /\ pure.arg.t = "dict")
     => LET items == pure.arg.items
            data == IF KeyAt(items, "data") = {} THEN NoneValue
                    ELSE items[SmallestOf(KeyAt(items, "data"))][2]
        IN pure.out =
             IF Qualifying(items) # {} THEN Some(PriorityValue(items))
             ELSE IF data.t = "dict" /\ Qualifying(data.items) # {}
               THEN Some(PriorityValue(data.items))
             ELSE IF IdLikeFields(items) # {}
               THEN Some(items[SmallestOf(IdLikeFields(items))][2].v)
             ELSE Nothing
  /\ extract_id_from_resp_str(
       DictValue(<<<<"projectId", StrValue(<<"p", "-", "1">>)>>>>))
       = Some(<<"p", "-", "1">>)
  /\ extract_id_from_resp_str(
       DictValue(<<<<"data", DictValue(
                      <<<<"id", StrValue(<<"x", "-", "9">>)>>>>)>>>>))
       = Some(<<"x", "-", "9">>)
  /\ extract_id_from_resp_str(DictValue(<<>>)) = Nothing

\* C22: for a string response extract_id_from_resp returns the string
\* without its leading and trailing quote and whitespace characters, and
\* none when nothing remains: the result is none or a non-empty string
\* that neither starts nor ends with a quote or a whitespace character.
C22_ExtractFromString ==
  (pure.fn = "extract_id_from_resp" /\ pure.arg.t = "str")
  => LET trimmed == strip(pure.arg.v, Whitespace \cup {DQuote, SQuote})
     IN /\ pure.out = IF trimmed = <<>> THEN Nothing ELSE Some(trimmed)
        /\ pure.out.some
           => /\ pure.out.v # <<>>
              /\ Head(pure.out.v) \notin Whitespace \cup {DQuote, SQuote}
              /\ pure.out.v[Len(pure.out.v)]
                   \notin Whitespace \cup {DQuote, SQuote}

\* C23: whenever an orchestrator run returns failure, the row has
\* failed=true and status 'failed' at the moment of the return.
C23_FailureIsRecorded ==
  [][\A w \in Workers :
       (run[w].pc # "idle" /\ run'[w].pc = "idle" /\ run'[w].result = "false")
       => (pr'.failed /\ pr'.status = "failed")]_vars

\* C24: no exception escapes an orchestrator run: every run ends by
\* returning a success/failure value, never by raising.
C24_NoExceptionEscapes == \A w \in Workers : run[w].result # "raised"

\* s is a prefix of t
IsPrefix(s, t) == Len(s) <= Len(t) /\ SubSeq(t, 1, Len(s)) = s

\* C25: the detail trail is append-only: every step leaves the previous
\* detail as a prefix of the new one, across runs and retries.
C25_DetailAppendOnly == [][IsPrefix(pr.detail, pr'.detail)]_vars

StepNames ==
  {"create_backend_service_task", "create_postgres_task",
   "deploy_db_then_app_quick", "create_frontend_service_task",
   "create_domains_task"}

\* the structural precondition of step function fn is missing in row p
MissingPrecondition(fn, p) ==
  CASE fn = "create_backend_service_task" -> p.project_id = None
    [] fn = "create_postgres_task" ->
         p.project_id = None \/ p.backend_id = None
    [] fn = "deploy_db_then_app_quick" ->
         p.backend_id = None \/ p.db_id = None
    [] fn = "create_frontend_service_task" -> p.project_id = None
    [] fn = "create_domains_task" ->
         p.frontend_id = None \/ p.backend_id = None \/ p.subdomain = <<>>
    [] OTHER -> FALSE

\* C26: a step function invoked while a structural precondition is missing
\* sets failed, returns failure, issues no remote call and sets no
\* completion flag.
C26_MissingPreconditionFails ==
  (pure.fn \in StepNames /\ MissingPrecondition(pure.fn, pure.arg.pr))
    => /\ pure.out.pr.failed
       /\ pure.out.ret = "false"
       /\ pure.out.log = <<>>
       /\ \A f \in Flags : pure.out.pr[f] = pure.arg.pr[f]

\* C26 witness: the domain step on a row with both application ids and no
\* subdomain has failed the row without a call.
C26_Witness ==
  /\ pure.fn = "create_domains_task"
  /\ pure.arg.pr.frontend_id # None
  /\ pure.arg.pr.backend_id # None
  /\ pure.arg.pr.subdomain = <<>>
  /\ ~pure.arg.pr.failed
  /\ pure.out.pr.failed
  /\ pure.out.ret = "false"
  /\ pure.out.log = <<>>

\* the completion flags in the fixed step order
FlagOrder ==
  <<"project_created", "backend_created", "backend_git_attached",
    "backend_build_configured", "db_created", "backend_env_configured",
    "postgres_deploy_triggered", "backend_deploy_triggered",
    "frontend_created", "frontend_git_attached", "frontend_build_configured",
    "frontend_deploy_triggered", "domains_configured">>

\* the place in the order of the step a remote call belongs to
StepOfCall(name) ==
  IF name = "domain.delete" THEN Len(FlagOrder)
  ELSE CHOOSE i \in 1..Len(FlagOrder) : name \in FlagCalls(FlagOrder[i])

\* C27: remote calls are issued strictly in the fixed step order: when a
\* step function has issued a call, the completion flags of all the steps
\* before that call's step are true.
C27_CallsInStepOrder ==
  [][\A w \in Workers :
       \A name \in run'[w].calls \ run[w].calls :
         \A i \in 1..(StepOfCall(name) - 1) : pr'[FlagOrder[i]]]_vars

\* C28: a run in which every remote call that is issued succeeds returns
\* success, whatever prefix of the flags was true when it started: a run
\* that ends without raising and in which no step function took a failure
\* path (so no call failed and every response was usable) returns True.
C28_ResumeSucceeds ==
  [][\A w \in Workers :
       (/\ run[w].pc # "idle"
        /\ run'[w].pc = "idle"
        /\ ~run'[w].fail_seen
        /\ run'[w].result # "raised")
       => run'[w].result = "true"]_vars

OwnFlagsTrue(fn, p) ==
  CASE fn = "create_backend_service_task" ->
         p.backend_created /\ p.backend_git_attached
         /\ p.backend_build_configured
    [] fn = "create_postgres_task" ->
         p.db_created /\ p.backend_env_configured
    [] fn = "deploy_db_then_app_quick" ->
         p.postgres_deploy_triggered /\ p.backend_deploy_triggered
    [] fn = "create_frontend_service_task" ->
         p.frontend_created /\ p.frontend_git_attached
         /\ p.frontend_build_configured /\ p.frontend_deploy_triggered
    [] fn = "create_domains_task" -> p.domains_configured
    [] OTHER -> FALSE

\* the step function returned its success value (the deploy step: anything
\* but its failure signal (None, None))
ReturnsSuccess(fn, out) ==
  IF fn = "deploy_db_then_app_quick" THEN out.pg_resp \/ out.app_resp
  ELSE out.ret = "true"

\* C30: a step function invoked when all of its own completion flags are
\* already true issues no remote call, returns success and leaves every
\* field of the row unchanged.
C30_CompletedStepIsNoOp ==
  (pure.fn \in StepNames /\ OwnFlagsTrue(pure.fn, pure.arg.pr))
    => /\ pure.out.log = <<>>
       /\ ReturnsSuccess(pure.fn, pure.out)
       /\ pure.out.pr = pure.arg.pr

\* a health-check job for the row is pending or an attempt is running
HealthPending ==
  last_health.running # {} \/ \E j \in jobs : j.id \in HealthJobIds

MatchingIndex(projects_list, project_id) ==
  {i \in 1..Len(projects_list) :
     /\ projects_list[i].projectId = project_id
     /\ \A j \in 1..(i - 1) : projects_list[j].projectId # project_id}

\* create_postgres_task has created a database and project.all has shown
\* no entry for it
DiscoveryFoundNothing ==
  /\ pure.fn = "create_postgres_task"
  /\ pure.arg.pr.project_id # None /\ pure.arg.pr.backend_id # None
  /\ ~(pure.arg.pr.db_created /\ pure.arg.pr.db_id # None
       /\ pure.arg.pr.db_fields)
  /\ pure.arg.o.create # "err"
  /\ pure.arg.o.all \in {"absent", "nodb"}

NoIdExtracted ==
  \/ /\ pure.fn = "create_project_task"
     /\ pure.arg.o # "err"
     /\ extract_id_from_resp(
          MkResp(pure.arg.o, "projectId", PlatformOf(pure.arg.pr).next_id,
                 "", None)) = None
  \/ /\ pure.fn = "create_backend_service_task"
     /\ pure.arg.pr.project_id # None /\ ~pure.arg.pr.backend_created
     /\ pure.arg.o.app # "err"
     /\ extract_id_from_resp(
          MkResp(pure.arg.o.app, "applicationId",
                 PlatformOf(pure.arg.pr).next_id,
                 "projectId", pure.arg.pr.project_id)) = None
  \/ /\ pure.fn = "create_frontend_service_task"
     /\ pure.arg.pr.project_id # None /\ ~pure.arg.pr.frontend_created
     /\ pure.arg.o.app # "err"
     /\ extract_id_from_resp(
          MkResp(pure.arg.o.app, "applicationId",
                 PlatformOf(pure.arg.pr).next_id,
                 "projectId", pure.arg.pr.project_id)) = None

\* C33: when a creation call succeeds and the Normalizer extracts no id from
\* its response, the step marks the row failed, leaves its completion flag
\* and resource id unset and returns failure.
C33_NoIdIsHardFailure ==
  NoIdExtracted =>
    /\ pure.out.pr.failed
    /\ pure.out.ret = "false"
    /\ (pure.fn = "create_project_task") =>
         ~pure.out.pr.project_created /\ pure.out.pr.project_id = None
    /\ (pure.fn = "create_backend_service_task") =>
         ~pure.out.pr.backend_created /\ pure.out.pr.backend_id = None
    /\ (pure.fn = "create_frontend_service_task") =>
         ~pure.out.pr.frontend_created /\ pure.out.pr.frontend_id = None

C35_StatusAgreesWithFailed == (pr.status = "failed") <=> pr.failed

FrontendDomainAtPlatform == \E d \in plat.domains : d.role = "frontend"

\* C37: after every run of create_domains_task the ledger's frontend_domain
\* is recorded if and only if a frontend domain created for the row exists
\* at the platform, whatever the outcomes of the create and delete calls
\* and whether or not a domain id was extracted.
C37_FrontendDomainAgrees ==
  last_domains.invoked
  => (last_domains.frontend_domain <=> FrontendDomainAtPlatform)

\* C37 witness: the backend domain creation failed and the rollback has
\* deleted the frontend domain created in the same run
C37_Witness ==
  /\ last_domains.invoked
  /\ \E i \in DomainCalls("domain.delete") : last_domains.log[i].ok
  /\ ~last_domains.frontend_domain
  /\ ~FrontendDomainAtPlatform

\* C38: in retry mode a call of the Platform Client ends in exactly one of
\* two ways for every value of max_retries, 0 included: it returns the
\* response of a successful HTTP attempt or it raises DokployError; it
\* never returns without a successful attempt.
C38_ClientReturnsOrRaises ==
  (client.retry /\ client.pc = "done")
  => \/ /\ client.result = "returned"
        /\ client.outcomes # <<>>
        /\ client.outcomes[Len(client.outcomes)] = "ok"
     \/ client.result = "raised"

\* C39: the project names stored in the ledger for the tenants of one
\* client are pairwise distinct, however the executions of
\* create_project_task for these tenants interleave.
C39_ProjectNamesUnique ==
  \A t \in Tenants : \A u \in Tenants \ {t} :
    (names.pc[t] = "saved" /\ names.pc[u] = "saved")
      => names.project_name[t] # names.project_name[u]

\* C40: two ledger rows whose stored subdomains differ never request the
\* same hostname: the frontend and backend hosts create_domains_task
\* derives for the one row are all different from those of the other.
C40_HostsDistinct ==
  (pure.fn = "hosts" /\ pure.arg[1] # pure.arg[2])
    => pure.out[1] \cap pure.out[2] = {}
====
